---- MODULE Spec2Model ----
(***************************************************************************)
(* Model of the success-rate scoring engine (backend/utils/mlPredictor.js, *)
(* kept here as src/unnamed/part_000): feature encoding, model             *)
(* persistence, start-up initialisation and the two public calls.          *)
(*                                                                         *)
(* Numbers.  A JavaScript value is a record [t, k, n, s]: t is its typeof  *)
(* class, k the kind of a number (finite, NaN, +Infinity, -Infinity), n    *)
(* the magnitude of a finite number and s the text of a string.  Model     *)
(* quantities (features, weights, probabilities) are fixed-point with n    *)
(* counted in 1/Scale; currency amounts (requiredFunding) are in whole     *)
(* units.                                                                  *)
(***************************************************************************)
EXTENDS Integers, Sequences, FiniteSets, TLC

\* Fixed-point resolution of model quantities: n = 1000 stands for 1.0.
Scale == 10^3

(* ------------------------- JavaScript values ------------------------- *)

Fin(n) == [t |-> "number", k |-> "fin", n |-> n, s |-> ""]
NaN == [t |-> "number", k |-> "nan", n |-> 0, s |-> ""]
PosInf == [t |-> "number", k |-> "pinf", n |-> 0, s |-> ""]
NegInf == [t |-> "number", k |-> "ninf", n |-> 0, s |-> ""]
Undefined == [t |-> "undefined", k |-> "", n |-> 0, s |-> ""]
Null == [t |-> "null", k |-> "", n |-> 0, s |-> ""]
Bool(b) == [t |-> "boolean", k |-> "", n |-> IF b THEN 1 ELSE 0, s |-> ""]
Str(s) == [t |-> "string", k |-> "", n |-> 0, s |-> s]

Zero == Fin(0)
One == Fin(Scale)

IsNumber(v) == v.t = "number"
IsFinite(v) == v.t = "number" /\ v.k = "fin"

\* ToBoolean: the operand test of `a || b`.
Truthy(v) ==
    CASE v.t = "undefined" -> FALSE
      [] v.t = "null" -> FALSE
      [] v.t = "boolean" -> v.n = 1
      [] v.t = "number" -> ~(v.k = "nan" \/ (v.k = "fin" /\ v.n = 0))
      [] v.t = "string" -> v.s # ""

\* a || b
OrElse(a, b) == IF Truthy(a) THEN a ELSE b

\* Decimal strings the model's inputs use, with the integer each denotes;
\* every other non-empty string converts to NaN.
NumericStrings == {"250000", "12"}
StringToInt(s) == CASE s = "250000" -> 250000 [] s = "12" -> 12

\* Number(v), with a finite result counted in 1/unit.
ToNumber(v, unit) ==
    CASE v.t = "number" -> v
      [] v.t = "undefined" -> NaN
      [] v.t = "null" -> Fin(0)
      [] v.t = "boolean" -> Fin(v.n * unit)
      [] v.t = "string" ->
            IF v.s = "" THEN Fin(0)
            ELSE IF v.s \in NumericStrings THEN Fin(StringToInt(v.s) * unit)
            ELSE NaN

(* ----------------------- IEEE-754 style arithmetic ----------------------- *)

Sign(v) == CASE v.k = "pinf" -> 1 [] v.k = "ninf" -> -1
             [] v.k = "fin" -> (IF v.n > 0 THEN 1 ELSE IF v.n < 0 THEN -1 ELSE 0)
             [] OTHER -> 0

\* Division rounding to the nearest fixed-point step.
RoundDiv(a, b) == (2 * a + b) \div (2 * b)

\* a + b on numbers.
Add(a, b) ==
    IF a.k = "nan" \/ b.k = "nan" THEN NaN
    ELSE IF a.k = "fin" /\ b.k = "fin" THEN Fin(a.n + b.n)
    ELSE IF a.k = "fin" THEN b
    ELSE IF b.k = "fin" THEN a
    ELSE IF a.k = b.k THEN a
    ELSE NaN

Neg(a) == CASE a.k = "fin" -> Fin(-a.n) [] a.k = "pinf" -> NegInf
            [] a.k = "ninf" -> PosInf [] OTHER -> NaN

Sub(a, b) == Add(a, Neg(b))

\* a * b on fixed-point numbers; Infinity * 0 is NaN.
Mul(a, b) ==
    IF a.k = "nan" \/ b.k = "nan" THEN NaN
    ELSE IF a.k = "fin" /\ b.k = "fin" THEN Fin(RoundDiv(a.n * b.n, Scale))
    ELSE IF Sign(a) * Sign(b) = 0 THEN NaN
    ELSE IF Sign(a) * Sign(b) > 0 THEN PosInf
    ELSE NegInf

\* The * operator: both operands pass through ToNumber first.
Times(a, b) == Mul(ToNumber(a, Scale), ToNumber(b, Scale))

\* a < b on numbers; every comparison with NaN is false.
Less(a, b) ==
    IF a.k = "nan" \/ b.k = "nan" THEN FALSE
    ELSE IF a.k = "fin" /\ b.k = "fin" THEN a.n < b.n
    ELSE IF a.k = b.k THEN FALSE
    ELSE a.k = "ninf" \/ b.k = "pinf"

\* Math.min / Math.max: NaN if either argument is NaN.
MathMin(a, b) == IF a.k = "nan" \/ b.k = "nan" THEN NaN ELSE IF Less(b, a) THEN b ELSE a
MathMax(a, b) == IF a.k = "nan" \/ b.k = "nan" THEN NaN ELSE IF Less(a, b) THEN b ELSE a

(* ------------------------------ Utilities ------------------------------ *)

\* e^j in 1/Scale for j = 0..8; beyond that 1/(1+e^-z) is 0 or 1 at this
\* resolution.
ExpTable == <<1000, 2718, 7389, 20086, 54598, 148413, 403429, 1096633, 2980958>>

\* e^(f/Scale) in 1/Scale for 0 <= f < Scale, by its Taylor series.
RECURSIVE ExpSeries(_, _, _)
ExpSeries(f, term, i) ==
    IF term = 0 THEN 0 ELSE term + ExpSeries(f, (term * f) \div (i * Scale), i + 1)

\* Math.exp(t/Scale) in 1/Scale for 0 <= t < 9 * Scale.
ExpFix(t) ==
    LET whole == ExpTable[(t \div Scale) + 1]
        part == ExpSeries(t % Scale, Scale, 1)
    IN  (whole \div Scale) * part + ((whole % Scale) * part) \div Scale

\* sigmoid(z) = 1 / (1 + Math.exp(-z))
Sigmoid(z) ==
    CASE z.k = "nan" -> NaN
      [] z.k = "pinf" -> One
      [] z.k = "ninf" -> Zero
      [] z.k = "fin" ->
            IF z.n >= 9 * Scale THEN One
            ELSE IF z.n <= -(9 * Scale) THEN Zero
            ELSE IF z.n >= 0
                 THEN Fin(Scale - RoundDiv(Scale * Scale, Scale + ExpFix(z.n)))
                 ELSE Fin(RoundDiv(Scale * Scale, Scale + ExpFix(-z.n)))

\* clamp01(v) = Math.max(0, Math.min(1, v))
clamp01(v) == MathMax(Zero, MathMin(One, v))

\* floor(log2(y)) for y >= 1.
RECURSIVE ILog2(_)
ILog2(y) == IF y < 2 THEN 0 ELSE 1 + ILog2(y \div 2)

\* The fractional bits of log2 of a mantissa m in [2^14, 2^15) (that is
\* m / 2^14 in [1, 2)), most significant first, by repeated squaring.
RECURSIVE Log2Frac(_, _)
Log2Frac(m, bits) ==
    IF bits = 0 THEN 0
    ELSE LET sq == (m * m) \div 2^14
         IN  IF sq >= 2^15 THEN 2^(bits - 1) + Log2Frac(sq \div 2, bits - 1)
             ELSE Log2Frac(sq, bits - 1)

\* log2(y) in 1/2^10 for an integer 1 <= y < 2^30; Math.log up to the constant
\* factor that the quotient in logNormalize cancels.
LogFix(y) ==
    LET e == ILog2(y)
        m == IF e <= 14 THEN y * 2^(14 - e) ELSE y \div 2^(e - 14)
    IN  e * 2^10 + Log2Frac(m, 10)

\* The funding amount logNormalize treats as the top of its range (1e6).
FundingCeiling == 1000000

\* logNormalize(x) = Math.log(1 + Math.max(0, Number(x) || 0)) / Math.log(1 + 1e6)
\* x is a raw value in whole currency units; the result is fixed-point.
\* Variant without the `|| 0` default.
logNormalizeNoDefault(x) ==
    LET v == MathMax(Fin(0), ToNumber(x, 1))
    IN  CASE v.k = "nan" -> NaN
          [] v.k = "pinf" -> PosInf
          [] OTHER -> Fin((LogFix(1 + v.n) * Scale) \div LogFix(1 + FundingCeiling))
logNormalize(x) ==
    LET v == MathMax(Fin(0), OrElse(ToNumber(x, 1), Fin(0)))
    IN  CASE v.k = "nan" -> NaN
          [] v.k = "pinf" -> PosInf
          [] OTHER -> Fin((LogFix(1 + v.n) * Scale) \div LogFix(1 + FundingCeiling))

(* --------------------------- Feature encoder --------------------------- *)

CATEGORY_VALUES ==
    <<"agriculture", "education", "healthcare", "technology", "infrastructure", "other">>
LOCATION_VALUES == <<"urban", "suburban", "rural", "coastal", "inland", "unknown">>

\* String.prototype.toLowerCase on the strings the model's inputs use: the
\* ones below carry upper-case letters, every other one is already lower-case.
toLowerCase(s) ==
    CASE s = "Technology" -> "technology"
      [] s = "HEALTHCARE" -> "healthcare"
      [] s = "Other" -> "other"
      [] s = "Urban" -> "urban"
      [] s = "RURAL" -> "rural"
      [] OTHER -> s

\* Array.prototype.indexOf, 0-based, -1 when absent.
indexOf(values, s) ==
    IF \E i \in 1..Len(values) : values[i] = s
    THEN (CHOOSE i \in 1..Len(values) :
              values[i] = s /\ \A j \in 1..(i - 1) : values[j] # s) - 1
    ELSE -1

\* Whether calling .toLowerCase() on v raises a TypeError: v is not a string.
CallThrows(v) == v.t # "string"
\* Whether reading a property of v raises a TypeError: v is null or undefined.
ReadThrows(v) == v.t \in {"undefined", "null"}

\* oneHot(value, values): whether it throws, and the block it returns.
oneHotThrows(value, values) == CallThrows(OrElse(value, Str("")))
\* Variant that does not lower-case the value.
oneHotCaseSensitive(value, values) ==
    LET idx == indexOf(values, OrElse(value, Str("")).s)
    IN  [i \in 1..Len(values) |->
            IF (i - 1) = (IF idx >= 0 THEN idx ELSE Len(values) - 1) THEN One ELSE Zero]
oneHot(value, values) ==
    LET idx == indexOf(values, toLowerCase(OrElse(value, Str("")).s))
    IN  [i \in 1..Len(values) |->
            IF (i - 1) = (IF idx >= 0 THEN idx ELSE Len(values) - 1) THEN One ELSE Zero]

\* Length at which the audience feature saturates.
AudienceCap == 200

\* (v).length for a string; undefined for the other values that have none.
LengthOf(v) == IF v.t = "string" THEN Fin(Len(v.s)) ELSE Undefined

\* Math.min(1, ((targetAudience || '').length || 0) / 200)
\* Variant without the Math.min cap.
audienceLenUncapped(targetAudience) ==
    LET len == OrElse(LengthOf(OrElse(targetAudience, Str(""))), Fin(0))
    IN  Fin(RoundDiv(len.n * Scale, AudienceCap))
audienceLen(targetAudience) ==
    LET len == OrElse(LengthOf(OrElse(targetAudience, Str(""))), Fin(0))
    IN  MathMin(One, Fin(RoundDiv(len.n * Scale, AudienceCap)))

\* buildFeatures(input): whether it throws, and the vector it returns.
buildFeaturesThrows(input) ==
    \/ oneHotThrows(input.category, CATEGORY_VALUES)
    \/ oneHotThrows(input.authorLocation, LOCATION_VALUES)
    \/ ReadThrows(OrElse(input.targetAudience, Str("")))
buildFeatures(input) ==
    oneHot(input.category, CATEGORY_VALUES)
        \o <<logNormalize(input.requiredFunding), audienceLen(input.targetAudience)>>
        \o oneHot(input.authorLocation, LOCATION_VALUES)

\* featureDim = CATEGORY_VALUES.length + 1 + 1 + LOCATION_VALUES.length
featureDim == Len(CATEGORY_VALUES) + 1 + 1 + Len(LOCATION_VALUES)

(* ----------------- Deterministic pseudorandom generator ----------------- *)
(* A 32-bit unsigned integer is a pair <<hi, lo>> of 16-bit halves, so that *)
(* no intermediate value leaves the checker's integer range.               *)

W16 == 2^16

U32(hi, lo) == <<hi % W16, lo % W16>>

\* Bitwise XOR and OR of two naturals below 2^bits.
RECURSIVE Xor(_, _, _)
Xor(a, b, bits) ==
    IF bits = 0 THEN 0
    ELSE ((a + b) % 2) + 2 * Xor(a \div 2, b \div 2, bits - 1)
RECURSIVE BitOr(_, _, _)
BitOr(a, b, bits) ==
    IF bits = 0 THEN 0
    ELSE (IF a % 2 = 1 \/ b % 2 = 1 THEN 1 ELSE 0) + 2 * BitOr(a \div 2, b \div 2, bits - 1)

Xor32(a, b) == <<Xor(a[1], b[1], 16), Xor(a[2], b[2], 16)>>
Or32(a, b) == <<BitOr(a[1], b[1], 16), BitOr(a[2], b[2], 16)>>

\* a >>> k for 0 < k < 16.
Shr32(a, k) == <<a[1] \div 2^k, (a[2] \div 2^k) + (a[1] % 2^k) * 2^(16 - k)>>

\* (a + b) mod 2^32
Add32(a, b) ==
    LET lo == a[2] + b[2]
    IN  <<(a[1] + b[1] + lo \div W16) % W16, lo % W16>>

\* The 32-bit product <<hi, lo>> of two 16-bit naturals.
Mul16(a, b) ==
    LET p1 == a * (b \div 256)
        p0 == a * (b % 256)
        mid == (p1 % 256) * 256 + p0
    IN  <<(p1 \div 256) + mid \div W16, mid % W16>>

\* Math.imul(a, b): the low 32 bits of the product.
Imul(a, b) ==
    LET ll == Mul16(a[2], b[2])
        hl == Mul16(a[1], b[2])
        lh == Mul16(a[2], b[1])
    IN  <<(ll[1] + hl[2] + lh[2]) % W16, ll[2]>>

\* floor(u * k / 2^32) for a 32-bit u and 0 <= k < 2^19: Math.floor(rand() * k).
FloorScale(u, k) ==
    LET kh == k \div W16
        kl == k % W16
        a == Mul16(u[2], kl)
        b == Mul16(u[1], kl)
        c == Mul16(u[2], kh)
    IN  u[1] * kh + b[1] + c[1] + (b[2] + c[2] + a[1]) \div W16

\* The increment 0x6D2B79F5 of the generator's state.
Mulberry32Step == <<27947, 31221>>

\* mulberry32(a): the state of the generator is the 32-bit residue of a.
mulberry32(seed) == U32(seed \div W16, seed)

\* The three mixing statements of the closure mulberry32 returns.
\*   t = Math.imul(t ^ t >>> 15, t | 1)
mixFirst(t) == Imul(Xor32(t, Shr32(t, 15)), Or32(t, <<0, 1>>))
\*   t ^= t + Math.imul(t ^ t >>> 7, t | 61)
mixSecond(t) == Xor32(t, Add32(t, Imul(Xor32(t, Shr32(t, 7)), Or32(t, <<0, 61>>))))
\*   (t ^ t >>> 14) >>> 0
mixLast(t) == Xor32(t, Shr32(t, 14))

\* The state after `a += 0x6D2B79F5`, and the 32-bit numerator of the value
\* the call returns from that state (the value is numerator / 2^32).
randOut(a1) == [state |-> a1, out |-> mixLast(mixSecond(mixFirst(a1)))]

\* One call of the closure mulberry32 returns: the new state and the output.
randNext(a) == randOut(Add32(a, Mulberry32Step))

\* The next n calls of the closure from state a, in order.
RECURSIVE randCalls(_, _)
randCalls(a, n) ==
    IF n = 0 THEN <<>>
    ELSE <<randNext(a)>> \o randCalls(Add32(a, Mulberry32Step), n - 1)

(* ------------------------ Double-precision numbers ----------------------- *)
(* The hidden rule of the synthetic dataset turns on the last bit of a sum   *)
(* of doubles, so that sum is computed as the machine computes it.  A        *)
(* natural number too wide for one integer is a sequence of 15-bit limbs,    *)
(* least first, without leading zeros; a double is [s, m, e], standing for   *)
(* s * m * 2^e with m such a natural of at most 53 bits (zero is m = <<>>).  *)

Limb == W16 \div 2

RECURSIVE BigOf(_)
BigOf(n) == IF n = 0 THEN <<>> ELSE <<n % Limb>> \o BigOf(n \div Limb)

RECURSIVE BigTrim(_)
BigTrim(x) ==
    IF x = <<>> \/ x[Len(x)] # 0 THEN x ELSE BigTrim(SubSeq(x, 1, Len(x) - 1))

BigAt(x, i) == IF i <= Len(x) THEN x[i] ELSE 0

RECURSIVE BigAddFrom(_, _, _, _)
BigAddFrom(x, y, i, carry) ==
    IF i > Len(x) /\ i > Len(y) THEN BigOf(carry)
    ELSE LET t == BigAt(x, i) + BigAt(y, i) + carry
         IN  <<t % Limb>> \o BigAddFrom(x, y, i + 1, t \div Limb)

BigAdd(x, y) == BigTrim(BigAddFrom(x, y, 1, 0))

\* x - y for x >= y
RECURSIVE BigSubFrom(_, _, _, _)
BigSubFrom(x, y, i, borrow) ==
    IF i > Len(x) THEN <<>>
    ELSE LET t == x[i] - BigAt(y, i) - borrow
         IN  <<t % Limb>> \o BigSubFrom(x, y, i + 1, IF t < 0 THEN 1 ELSE 0)

BigSub(x, y) == BigTrim(BigSubFrom(x, y, 1, 0))

\* -1, 0 or 1 as x is below, equal to or above y
RECURSIVE BigCmpFrom(_, _, _)
BigCmpFrom(x, y, i) ==
    IF i = 0 THEN 0
    ELSE IF x[i] < y[i] THEN -1
    ELSE IF x[i] > y[i] THEN 1
    ELSE BigCmpFrom(x, y, i - 1)

BigCmp(x, y) ==
    IF Len(x) < Len(y) THEN -1
    ELSE IF Len(x) > Len(y) THEN 1
    ELSE BigCmpFrom(x, y, Len(x))

\* x * k for a k below Limb
RECURSIVE BigTimesFrom(_, _, _, _)
BigTimesFrom(x, k, i, carry) ==
    IF i > Len(x) THEN BigOf(carry)
    ELSE LET t == x[i] * k + carry
         IN  <<t % Limb>> \o BigTimesFrom(x, k, i + 1, t \div Limb)

BigTimes(x, k) == BigTrim(BigTimesFrom(x, k, 1, 0))

RECURSIVE BigMulFrom(_, _, _)
BigMulFrom(x, y, i) ==
    IF i > Len(y) THEN <<>>
    ELSE BigAdd([j \in 1..(i - 1) |-> 0] \o BigTimes(x, y[i]),
                BigMulFrom(x, y, i + 1))

BigMul(x, y) == BigMulFrom(x, y, 1)

\* x * 2^k and the floor of x / 2^k
BigShl(x, k) ==
    IF x = <<>> THEN <<>>
    ELSE [j \in 1..(k \div 15) |-> 0] \o BigTimes(x, 2^(k % 15))

BigShr(x, k) ==
    LET r == k % 15
        y == SubSeq(x, k \div 15 + 1, Len(x))
    IN  BigTrim([i \in 1..Len(y) |->
                    y[i] \div 2^r + (BigAt(y, i + 1) % 2^r) * 2^(15 - r)])

BigBits(x) == IF x = <<>> THEN 0 ELSE 15 * (Len(x) - 1) + ILog2(x[Len(x)]) + 1

\* Quotient and remainder of x by y # 0, one bit of the quotient at a time:
\* acc.i is the bit to settle next, and BigDivFrom settles the bits down to lo.
BigDivBit(acc, y) ==
    LET ys == BigShl(y, acc.i)
    IN  IF BigCmp(acc.r, ys) >= 0
        THEN [q |-> BigAdd(BigTimes(acc.q, 2), <<1>>), r |-> BigSub(acc.r, ys),
              i |-> acc.i - 1]
        ELSE [q |-> BigTimes(acc.q, 2), r |-> acc.r, i |-> acc.i - 1]

RECURSIVE BigDivFrom(_, _, _)
BigDivFrom(acc, y, lo) ==
    IF acc.i = lo THEN BigDivBit(acc, y)
    ELSE BigDivFrom(BigDivFrom(acc, y, (acc.i + lo + 1) \div 2), y, lo)

BigDivMod(x, y) ==
    BigDivFrom([q |-> <<>>, r |-> x,
                i |-> IF BigBits(x) > BigBits(y) THEN BigBits(x) - BigBits(y) ELSE 0],
               y, 0)

DZero == [s |-> 1, m |-> <<>>, e |-> 0]

DInt(n) == [s |-> IF n < 0 THEN -1 ELSE 1, m |-> BigOf(IF n < 0 THEN -n ELSE n), e |-> 0]

DNeg(x) == [x EXCEPT !.s = -x.s]

\* s * n * 2^e rounded to the nearest double, a tie to the even mantissa.
DRound(s, n, e) ==
    LET k == BigBits(n) - 53
    IN  IF k <= 0 THEN [s |-> s, m |-> n, e |-> e]
        ELSE LET q == BigShr(n, k)
                 c == BigCmp(BigTimes(BigSub(n, BigShl(q, k)), 2), BigShl(<<1>>, k))
             IN  [s |-> s,
                  m |-> IF c > 0 \/ (c = 0 /\ q[1] % 2 = 1)
                        THEN BigAdd(q, <<1>>) ELSE q,
                  e |-> e + k]

\* The operators +, *, / and < of the language on doubles.
DAdd(x, y) ==
    IF x.m = <<>> THEN y
    ELSE IF y.m = <<>> THEN x
    ELSE LET e == IF x.e < y.e THEN x.e ELSE y.e
             a == BigShl(x.m, x.e - e)
             b == BigShl(y.m, y.e - e)
             c == BigCmp(a, b)
         IN  IF x.s = y.s THEN DRound(x.s, BigAdd(a, b), e)
             ELSE IF c = 0 THEN DZero
             ELSE IF c > 0 THEN DRound(x.s, BigSub(a, b), e)
             ELSE DRound(y.s, BigSub(b, a), e)

DMul(x, y) ==
    IF x.m = <<>> \/ y.m = <<>> THEN DZero
    ELSE DRound(x.s * y.s, BigMul(x.m, y.m), x.e + y.e)

\* The quotient is taken to 55 bits or more and one bit that tells whether a
\* remainder is left, which is enough to round it as the exact quotient.
DDiv(x, y) ==
    IF x.m = <<>> THEN DZero
    ELSE LET k == IF 55 + BigBits(y.m) > BigBits(x.m)
                  THEN 55 + BigBits(y.m) - BigBits(x.m) ELSE 0
             d == BigDivMod(BigShl(x.m, k), y.m)
         IN  DRound(x.s * y.s,
                    BigAdd(BigTimes(d.q, 2), IF d.r = <<>> THEN <<>> ELSE <<1>>),
                    x.e - y.e - k - 1)

DLess(x, y) ==
    LET d == DAdd(x, DNeg(y))
    IN  d.m # <<>> /\ d.s = -1

\* The double a decimal literal n / d denotes.
DOf(n, d) == DDiv(DInt(n), DInt(d))

(* --------------------- Synthetic dataset generation --------------------- *)

\* categoryBase(category), in 1/Scale.
categoryBase(category) ==
    LET c == toLowerCase(OrElse(category, Str("")).s)
    IN  CASE c = "technology" -> Fin(1000)
          [] c = "healthcare" -> Fin(800)
          [] c = "education" -> Fin(600)
          [] c = "infrastructure" -> Fin(400)
          [] c = "agriculture" -> Fin(500)
          [] OTHER -> Fin(300)

\* locationBase(loc), in 1/Scale.
locationBase(loc) ==
    LET l == toLowerCase(OrElse(loc, Str("")).s)
    IN  CASE l = "urban" -> Fin(500)
          [] l = "suburban" -> Fin(350)
          [] l = "coastal" -> Fin(300)
          [] l = "inland" -> Fin(150)
          [] l = "rural" -> Fin(100)
          [] OTHER -> Fin(0)

AudienceLengths == <<20, 60, 120, 180>>
AudienceWords ==
    <<"youth", "farmers", "smes", "patients", "developers", "teachers", "commuters",
      "tourists", "parents", "seniors">>

\* The loop of randomAudience over the calls d[from..to]: the words drawn,
\* joined by ' '.
RECURSIVE audienceLoop(_, _, _)
audienceLoop(d, from, to) ==
    IF from > to THEN ""
    ELSE AudienceWords[FloorScale(d[from].out, Len(AudienceWords)) + 1]
            \o (IF from < to THEN " " ELSE "") \o audienceLoop(d, from + 1, to)

\* randomAudience(rand), rand's calls being d[first], d[first + 1], ...: the
\* number of words it draws, and its text.
audienceCount(d, first) ==
    AudienceLengths[FloorScale(d[first].out, Len(AudienceLengths)) + 1] \div 6
randomAudience(d, first) == audienceLoop(d, first + 1, first + audienceCount(d, first))

\* Upper end (exclusive) of the sampled requiredFunding.
FundingRange == 300000

\* Calls of rand one iteration of the loop of generateSyntheticDataset makes
\* at most: category, location, funding, audience (1 + 180 \div 6), noise.
MaxCallsPerRow == 3 + 1 + 30 + 1

\* The bitwise operators hand back a signed 32-bit integer: the number the
\* bit pattern u = <<hi, lo>> stands for, and `x >>> 0`, which takes a
\* negative one back to its residue below 2^32.
signed32(u) ==
    LET n == BigAdd(BigShl(BigOf(u[1]), 16), BigOf(u[2]))
    IN  IF 2 * u[1] < W16 THEN [s |-> 1, m |-> n, e |-> 0]
        ELSE [s |-> -1, m |-> BigSub(BigShl(<<1>>, 32), n), e |-> 0]

unsigned32(x) ==
    IF x.s = 1 \/ x.m = <<>> THEN x
    ELSE [s |-> 1, m |-> BigSub(BigShl(<<1>>, 32), x.m), e |-> 0]

\* The value rand() returns, t ^ t >>> 14 having the bit pattern u:
\*   ((t ^ t >>> 14) >>> 0) / 4294967296
randValue(u) == DDiv(unsigned32(signed32(u)), [s |-> 1, m |-> <<1>>, e |-> 32])

\* `base` of the hidden rule, statement by statement (l.51-57).
baseOf(category, authorLocation, requiredFunding, targetAudience, noise) ==
    LET ratio == DDiv(DInt(Len(targetAudience)), DInt(200))
        b1 == DAdd(DZero, DOf(categoryBase(Str(category)).n, Scale))
        b2 == DAdd(b1, DNeg(DMul(DDiv(DInt(requiredFunding), DInt(300000)),
                                 DOf(12, 10))))
        b3 == DAdd(b2, DMul(IF DLess(ratio, DInt(1)) THEN ratio ELSE DInt(1),
                            DOf(6, 10)))
        b4 == DAdd(b3, DOf(locationBase(Str(authorLocation)).n, Scale))
    IN  DAdd(b4, DMul(DAdd(randValue(noise), DNeg(DOf(5, 10))), DOf(3, 10)))

\* sigmoid(z) > 0.5 (l.9, l.59).  For an x within 2^-28 of zero the engine's
\* Math.exp(x) is the double 1 + x, and the rounding of 1 - z, of the sum and
\* of the quotient decides; farther out exp(-z) is away from 1 by more than
\* any rounding, and the sign of z decides.
sigmoidAboveHalf(z) ==
    IF z.m = <<>> \/ DLess([z EXCEPT !.s = 1], [s |-> 1, m |-> <<1>>, e |-> -28])
    THEN DLess(DOf(5, 10),
               DDiv(DInt(1), DAdd(DInt(1), DAdd(DInt(1), DNeg(z)))))
    ELSE z.s = 1

\* The hidden rule: base, then prob = sigmoid(base), label = prob > 0.5.
\* noise is the numerator of the value rand() yielded for the noise term.
labelOf(category, authorLocation, requiredFunding, targetAudience, noise) ==
    IF sigmoidAboveHalf(baseOf(category, authorLocation, requiredFunding,
                               targetAudience, noise))
    THEN 1 ELSE 0

rowOf(category, authorLocation, requiredFunding, targetAudience, label, state) ==
    [x |-> buildFeatures([category |-> Str(category),
                          authorLocation |-> Str(authorLocation),
                          requiredFunding |-> Fin(requiredFunding),
                          targetAudience |-> Str(targetAudience)]),
     y |-> label,
     raw |-> [category |-> category, authorLocation |-> authorLocation,
              requiredFunding |-> requiredFunding, targetAudience |-> targetAudience,
              success |-> label],
     state |-> state]

labelledRow(category, authorLocation, requiredFunding, targetAudience, last) ==
    rowOf(category, authorLocation, requiredFunding, targetAudience,
          labelOf(category, authorLocation, requiredFunding, targetAudience, last.out),
          last.state)

\* One iteration of the loop of generateSyntheticDataset, rand's calls being
\* d[1], d[2], ...: the example drawn and the generator's state afterwards.
rowFromCalls(d) ==
    labelledRow(CATEGORY_VALUES[FloorScale(d[1].out, Len(CATEGORY_VALUES)) + 1],
                LOCATION_VALUES[FloorScale(d[2].out, Len(LOCATION_VALUES)) + 1],
                FloorScale(d[3].out, FundingRange),
                randomAudience(d, 4),
                d[4 + audienceCount(d, 4) + 1])
generateRow(state) == rowFromCalls(randCalls(state, MaxCallsPerRow))

appendRow(acc, row) ==
    [X |-> Append(acc.X, row.x), y |-> Append(acc.y, row.y),
     rawRows |-> Append(acc.rawRows, row.raw), state |-> row.state]

\* The loop of generateSyntheticDataset, i being the number of rows pushed so
\* far: `for (let i = 0; i < numSamples; i++)`.
RECURSIVE generateLoop(_, _)
generateLoop(numSamples, acc) ==
    IF Len(acc.y) >= numSamples THEN acc
    ELSE generateLoop(numSamples, appendRow(acc, generateRow(acc.state)))

NoData == [X |-> <<>>, y |-> <<>>, rawRows |-> <<>>]

dropState(acc) == [X |-> acc.X, y |-> acc.y, rawRows |-> acc.rawRows]

\* generateSyntheticDataset(numSamples, seed)
generateSyntheticDataset(numSamples, seed) ==
    dropState(generateLoop(numSamples,
                           [X |-> <<>>, y |-> <<>>, rawRows |-> <<>>,
                            state |-> mulberry32(seed)]))

(* -------------------------- Logistic regression -------------------------- *)

\* new LogisticRegression(nFeatures)
NewModel(nFeatures) == [weights |-> [i \in 1..nFeatures |-> Zero], bias |-> Zero]

\* z after the loop of predictProba has added the terms i..weights.length.
RECURSIVE dotFrom(_, _, _, _)
dotFrom(weights, x, i, z) ==
    IF i > Len(weights) THEN z
    ELSE dotFrom(weights, x, i + 1, Add(z, Times(weights[i], x[i])))

\* predictProba(x)
predictProba(m, x) == Sigmoid(dotFrom(m.weights, x, 1, m.bias))

\* f[lo] + ... + f[hi], the sum an accumulating loop builds from 0; the
\* range is halved so that long sums stay shallow.
RECURSIVE SumRange(_, _, _)
SumRange(f, lo, hi) ==
    IF lo > hi THEN Zero
    ELSE IF lo = hi THEN Add(Zero, f[lo])
    ELSE LET mid == (lo + hi) \div 2
         IN  Add(SumRange(f, lo, mid), SumRange(f, mid + 1, hi))

\* (learningRate / n) * g, with learningRate in 1/Scale and n a count: the
\* quotient is taken exactly and only the product is rounded.  Dividing by
\* n = 0 gives an infinity (NaN for 0 / 0).
stepTimes(learningRate, n, g) ==
    IF n = 0
    THEN Mul(IF learningRate > 0 THEN PosInf ELSE IF learningRate < 0 THEN NegInf ELSE NaN, g)
    ELSE IF g.k = "fin" THEN Fin(RoundDiv(learningRate * g.n, n * Scale))
    ELSE Mul(Fin(learningRate), g)

\* One pass of the epoch loop of train: every error is taken against the
\* parameters the epoch started with, then each weight and the bias move once.
trainEpoch(m, X, y, learningRate) ==
    LET n == Len(X)
        error == [i \in 1..n |-> Sub(predictProba(m, X[i]), Fin(y[i] * Scale))]
        gradW == [j \in 1..Len(m.weights) |->
                     SumRange([i \in 1..n |-> Mul(error[i], X[i][j])], 1, n)]
        gradB == SumRange(error, 1, n)
    IN  [weights |-> [j \in 1..Len(m.weights) |->
                         Sub(m.weights[j], stepTimes(learningRate, n, gradW[j]))],
         bias |-> Sub(m.bias, stepTimes(learningRate, n, gradB))]

(* --------------------------- Persistence helpers --------------------------- *)
(* The model file is text.  Its content is a record [kind, top, isArray,    *)
(* weights, bias]: kind says whether the file exists and whether its text   *)
(* is JSON at all; for JSON text, top is the type of the top-level value    *)
(* and, for an object, isArray says whether its "weights" member is an      *)
(* array, weights lists that array's items and bias is its "bias" member.   *)
(* Items and bias are JSON tokens [j, n, s].                                *)

TNum(n) == [j |-> "number", n |-> n, s |-> ""]
\* A numeric literal beyond the range of a double, such as 1e999 / -1e999.
THuge == [j |-> "huge", n |-> 1, s |-> ""]
TNegHuge == [j |-> "huge", n |-> -1, s |-> ""]
TStr(s) == [j |-> "string", n |-> 0, s |-> s]
TNull == [j |-> "null", n |-> 0, s |-> ""]
TBool(b) == [j |-> "boolean", n |-> IF b THEN 1 ELSE 0, s |-> ""]
\* No such member in the object.
TMissing == [j |-> "missing", n |-> 0, s |-> ""]

\* JSON.parse on one token.
parseToken(tok) ==
    CASE tok.j = "number" -> Fin(tok.n)
      [] tok.j = "huge" -> (IF tok.n > 0 THEN PosInf ELSE NegInf)
      [] tok.j = "string" -> Str(tok.s)
      [] tok.j = "null" -> Null
      [] tok.j = "boolean" -> Bool(tok.n = 1)
      [] tok.j = "missing" -> Undefined

\* JSON.stringify on an array item: what is not a finite number, a string or
\* a boolean is written as null.
stringifyItem(v) ==
    CASE v.t = "number" -> (IF v.k = "fin" THEN TNum(v.n) ELSE TNull)
      [] v.t = "string" -> TStr(v.s)
      [] v.t = "boolean" -> TBool(v.n = 1)
      [] OTHER -> TNull

\* JSON.stringify on an object member: an undefined member is left out.
stringifyMember(v) == IF v.t = "undefined" THEN TMissing ELSE stringifyItem(v)

AbsentFile ==
    [kind |-> "absent", top |-> "", isArray |-> FALSE, weights |-> <<>>, bias |-> TMissing]
GarbageFile ==
    [kind |-> "garbage", top |-> "", isArray |-> FALSE, weights |-> <<>>, bias |-> TMissing]
JsonValueFile(top) ==
    [kind |-> "json", top |-> top, isArray |-> FALSE, weights |-> <<>>, bias |-> TMissing]
JsonObjectFile(isArray, weights, bias) ==
    [kind |-> "json", top |-> "object", isArray |-> isArray, weights |-> weights,
     bias |-> bias]

\* saveModel(modelInstance): the text written to MODEL_PATH.
\* Variant that writes the weights with two decimals.
saveModelTwoDecimals(m) ==
    JsonObjectFile(TRUE, [i \in 1..Len(m.weights) |-> TNum((m.weights[i].n \div 10) * 10)],
                   stringifyMember(m.bias))
saveModel(m) ==
    JsonObjectFile(TRUE, [i \in 1..Len(m.weights) |-> stringifyItem(m.weights[i])],
                   stringifyMember(m.bias))

\* loadModel(modelInstance) on the file content f: whether it threw, what it
\* returned, and the model instance afterwards.
\* Variant without the comparison of lengths.
loadModelNoLengthCheck(f, m) ==
    CASE f.kind = "absent" -> [threw |-> FALSE, ok |-> FALSE, model |-> m]
      [] f.kind = "garbage" -> [threw |-> TRUE, ok |-> FALSE, model |-> m]
      [] f.kind = "json" /\ f.top = "null" -> [threw |-> TRUE, ok |-> FALSE, model |-> m]
      [] f.kind = "json" /\ f.top \notin {"null", "object"} ->
            [threw |-> FALSE, ok |-> FALSE, model |-> m]
      [] OTHER ->
            IF ~f.isArray \/ parseToken(f.bias).t # "number"
            THEN [threw |-> FALSE, ok |-> FALSE, model |-> m]
            ELSE [threw |-> FALSE, ok |-> TRUE,
                  model |-> [weights |-> [i \in 1..Len(f.weights) |-> parseToken(f.weights[i])],
                             bias |-> parseToken(f.bias)]]
loadModel(f, m) ==
    CASE f.kind = "absent" -> [threw |-> FALSE, ok |-> FALSE, model |-> m]
      [] f.kind = "garbage" -> [threw |-> TRUE, ok |-> FALSE, model |-> m]
      [] f.kind = "json" /\ f.top = "null" -> [threw |-> TRUE, ok |-> FALSE, model |-> m]
      [] f.kind = "json" /\ f.top \notin {"null", "object"} ->
            [threw |-> FALSE, ok |-> FALSE, model |-> m]
      [] OTHER ->
            IF ~f.isArray \/ parseToken(f.bias).t # "number"
            THEN [threw |-> FALSE, ok |-> FALSE, model |-> m]
            ELSE IF Len(f.weights) # Len(m.weights)
            THEN [threw |-> FALSE, ok |-> FALSE, model |-> m]
            ELSE [threw |-> FALSE, ok |-> TRUE,
                  model |-> [weights |-> [i \in 1..Len(f.weights) |-> parseToken(f.weights[i])],
                             bias |-> parseToken(f.bias)]]

\* saveCsv(rows): the rows written to CSV_PATH under the header line.  cut
\* says that the text stops short of what saveCsv set out to write.
NoCsv == [exists |-> FALSE, rows |-> <<>>, cut |-> FALSE]
saveCsv(rows) == [exists |-> TRUE, rows |-> rows, cut |-> FALSE]

\* writeFileSync opens its target with truncation and then writes; a write
\* that fails once the target is open (disk full, size limit) leaves a
\* prefix of the text behind.  A prefix of the model's text, the empty one
\* included, is not JSON (GarbageFile); of the CSV, k whole rows remain.
cutCsv(rows, k) == [exists |-> TRUE, rows |-> SubSeq(rows, 1, k), cut |-> TRUE]

(* ------------------------------ Public API ------------------------------ *)

\* normalizeInput(idea)
normalizeInput(idea) ==
    [category |-> idea.category,
     requiredFunding |-> idea.requiredFunding,
     targetAudience |-> idea.targetAudience,
     authorLocation |-> OrElse(idea.authorLocation, OrElse(idea.location, Str("unknown")))]

\* perFeatureContributions(x, w, b)
categoryTerms(x, w) ==
    SelectSeq([i \in 1..Len(CATEGORY_VALUES) |->
                  [feature |-> "category:" \o CATEGORY_VALUES[i], weight |-> w[i],
                   hasValue |-> FALSE, value |-> Undefined, on |-> x[i] = One]],
              LAMBDA t : t.on)
\* Variant whose location loop restarts the index at 0.
locationTermsFromZero(x, w) ==
    SelectSeq([i \in 1..Len(LOCATION_VALUES) |->
                  [feature |-> "authorLocation:" \o LOCATION_VALUES[i],
                   weight |-> w[i], hasValue |-> FALSE, value |-> Undefined,
                   on |-> x[i] = One]],
              LAMBDA t : t.on)
locationTerms(x, w) ==
    LET off == Len(CATEGORY_VALUES) + 2
    IN  SelectSeq([i \in 1..Len(LOCATION_VALUES) |->
                      [feature |-> "authorLocation:" \o LOCATION_VALUES[i],
                       weight |-> w[off + i], hasValue |-> FALSE, value |-> Undefined,
                       on |-> x[off + i] = One]],
                  LAMBDA t : t.on)
\* Variant whose funding term reads the weight at the audience index.
perFeatureContributionsShifted(x, w, b) ==
    LET fundingIdx == Len(CATEGORY_VALUES) + 1
        audienceIdx == fundingIdx + 1
    IN  [bias |-> b,
         terms |-> categoryTerms(x, w)
             \o <<[feature |-> "requiredFunding(log-normalized)", weight |-> w[audienceIdx],
                   hasValue |-> TRUE, value |-> x[fundingIdx], on |-> TRUE],
                  [feature |-> "targetAudienceLength(norm)", weight |-> w[audienceIdx],
                   hasValue |-> TRUE, value |-> x[audienceIdx], on |-> TRUE]>>
             \o locationTerms(x, w)]
perFeatureContributions(x, w, b) ==
    LET fundingIdx == Len(CATEGORY_VALUES) + 1
        audienceIdx == fundingIdx + 1
    IN  [bias |-> b,
         terms |-> categoryTerms(x, w)
             \o <<[feature |-> "requiredFunding(log-normalized)", weight |-> w[fundingIdx],
                   hasValue |-> TRUE, value |-> x[fundingIdx], on |-> TRUE],
                  [feature |-> "targetAudienceLength(norm)", weight |-> w[audienceIdx],
                   hasValue |-> TRUE, value |-> x[audienceIdx], on |-> TRUE]>>
             \o locationTerms(x, w)]

\* predictSuccessRate(ideaOrInput) under model m: whether the call fails, the
\* feature vector it built and the value it resolves to.
predictSuccessRate(m, idea) ==
    LET input == normalizeInput(idea)
        x == buildFeatures(input)
    IN  IF buildFeaturesThrows(input)
        THEN [threw |-> TRUE, x |-> <<>>, probability |-> Undefined, terms |-> <<>>]
        ELSE [threw |-> FALSE, x |-> x, probability |-> clamp01(predictProba(m, x)),
              terms |-> <<>>]

\* getSuccessRateExplanation(ideaOrInput) under model m.
getSuccessRateExplanation(m, idea) ==
    LET input == normalizeInput(idea)
        x == buildFeatures(input)
    IN  IF buildFeaturesThrows(input)
        THEN [threw |-> TRUE, x |-> <<>>, probability |-> Undefined, terms |-> <<>>]
        ELSE [threw |-> FALSE, x |-> x, probability |-> clamp01(predictProba(m, x)),
              terms |-> perFeatureContributions(x, m.weights, m.bias).terms]

(* ------------------------------ Bounds ------------------------------ *)

\* Process starts followed (the first start and the restarts after it).
MaxRuns == 2
\* Examples generated and epochs run at start-up; initModel asks for 1500
\* examples and 500 epochs.
TrainSamples == 3
TrainEpochs == 2

\* Arguments initModel passes: the seed, and the learning rate in 1/Scale.
Seed == 123
LearningRate == 500

(* ------------------------------ Inputs ------------------------------ *)

RECURSIVE Text(_)
Text(n) ==
    IF n = 0 THEN ""
    ELSE IF n % 2 = 0 THEN LET half == Text(n \div 2) IN half \o half
    ELSE "a" \o Text(n - 1)

Idea(c, f, a, al, l) ==
    [category |-> c, requiredFunding |-> f, targetAudience |-> a, authorLocation |-> al,
     location |-> l]

\* The idea records the public calls are made with.
Ideas ==
    {Idea(c, f, a, al, Undefined) :
        c \in {Str("technology"), Str("HEALTHCARE"), Str("blockchain"), Undefined},
        f \in {Fin(0), Fin(250000), Fin(5000000), Str("abc")},
        a \in {Undefined, Str(""), Str(Text(100))},
        al \in {Str("Urban"), Str("mars"), Undefined}}
    \cup {Idea(Str("education"), f, Str(Text(40)), Str("coastal"), Undefined) :
            f \in {Undefined, Null, NaN, Bool(TRUE), Str("250000"), Fin(-5), Fin(1000000),
                   PosInf}}
    \cup {Idea(Str("education"), Fin(1000), a, Str("coastal"), Undefined) :
            a \in {Str(Text(200)), Str(Text(250)), Fin(5), Null}}
    \cup {Idea(c, Fin(1000), Str(Text(40)), Undefined, l) :
            c \in {Str(""), Null, Str("Other"), Str("other")},
            l \in {Str("RURAL"), Str("unknown"), Undefined}}

\* Contents the model file may have when the first process starts.
FiniteWeights == [i \in 1..featureDim |-> TNum(150 * i - 1000)]
PersistedFiles ==
    { AbsentFile, GarbageFile, JsonValueFile("null"), JsonValueFile("number"),
      JsonObjectFile(FALSE, <<>>, TNum(100)),
      JsonObjectFile(TRUE, FiniteWeights, TMissing),
      JsonObjectFile(TRUE, FiniteWeights, TStr("0.1")),
      JsonObjectFile(TRUE, [i \in 1..5 |-> TNum(100 * i)], TNum(100)),
      JsonObjectFile(TRUE, [i \in 1..(featureDim + 1) |-> TNum(100 * i)], TNum(100)),
      JsonObjectFile(TRUE, FiniteWeights, TNum(-200)),
      JsonObjectFile(TRUE, [i \in 1..featureDim |-> TNum(0)], TNum(0)),
      JsonObjectFile(TRUE, [FiniteWeights EXCEPT ![3] = TStr("high")], TNum(100)),
      JsonObjectFile(TRUE, [FiniteWeights EXCEPT ![7] = THuge], TNum(100)) }

(* --------------------------- Idea routes: data --------------------------- *)
(* backend/routes/ideas.js keeps one Idea document per idea in the database *)
(* and reads the author's User document for the profile location.           *)

\* IdeaSchema.location.enum and IdeaSchema.category.enum
LocationEnum == {"urban", "rural", "suburban", "coastal", "inland", "unknown"}
CategoryEnum == {"agriculture", "education", "healthcare", "technology", "infrastructure",
                 "other"}

\* No Idea document in the collection.  ratedWith records the authorLocation
\* the route passed to predictSuccessRate when successRate was last stored.
NoDoc ==
    [exists |-> FALSE, category |-> Undefined, targetAudience |-> Undefined,
     requiredFunding |-> Undefined, location |-> Undefined, successRate |-> Null,
     ratedWith |-> Undefined, interestedFunders |-> <<>>]

\* new Idea({...}): the schema default fills a location left undefined.
newIdea(category, targetAudience, requiredFunding, location) ==
    [exists |-> TRUE, category |-> category, targetAudience |-> targetAudience,
     requiredFunding |-> requiredFunding,
     location |-> IF location = Undefined THEN Str("unknown") ELSE location,
     successRate |-> Null, ratedWith |-> Undefined, interestedFunders |-> <<>>]

\* Validation run by save().  The enum fields hold one of their values.  A
\* String path casts a number or a boolean to its text, and `required` wants
\* a string that is not empty.  A Number path casts undefined, null and ''
\* to no value, a boolean and a string Number() reads to a number, and
\* rejects NaN and any other string; `required` wants a value.
validates(d) ==
    LET requiredString(v) ==
            CASE v.t = "string" -> v.s # ""
              [] v.t = "number" -> TRUE
              [] v.t = "boolean" -> TRUE
              [] OTHER -> FALSE
        requiredNumber(v) ==
            CASE v.t = "number" -> v.k # "nan"
              [] v.t = "boolean" -> TRUE
              [] v.t = "string" -> v.s # "" /\ ToNumber(v, 1).k # "nan"
              [] OTHER -> FALSE
    IN  /\ d.category.t = "string" /\ d.category.s \in CategoryEnum
        /\ requiredString(d.targetAudience)
        /\ requiredNumber(d.requiredFunding)
        /\ d.location.t = "string" /\ d.location.s \in LocationEnum

\* const authorLocation = author?.location || 'unknown';
authorLocationOf(userLocation) == OrElse(userLocation, Str("unknown"))

\* (location && location !== 'unknown') ? location : authorLocation
effectiveLocation(location, authorLocation) ==
    IF Truthy(location) /\ location # Str("unknown") THEN location ELSE authorLocation

\* Express-interest requests a run follows.
MaxRequests == 3

\* Position of an express-interest request: not sent, or between two awaits.
NoRequest == [at |-> "idle", funder |-> "", seen |-> <<>>, status |-> 0]
NoRequests == [r \in 1..MaxRequests |-> NoRequest]

\* train is not inside an epoch.
NoGrad == [i |-> 0, gradW |-> <<>>, gradB |-> Zero, start |-> NewModel(0)]

\* No invocation of generateSyntheticDataset is running.
NoGen ==
    [running |-> FALSE, numSamples |-> 0, seed |-> 0, state |-> <<0, 0>>, yields |-> <<>>,
     X |-> <<>>, y |-> <<>>, rawRows |-> <<>>]

\* No response sent yet.  idea is the document a response was built from:
\* the handler's copy for res.json(idea), the copy read for an explanation.
NoReply ==
    [route |-> "none", status |-> 0, authorLocation |-> Undefined,
     successRate |-> Undefined, probability |-> Undefined, terms |-> <<>>,
     idea |-> NoDoc]

\* Requests to the create, update, delete and explanation routes a run
\* follows, and how many of them may be in flight together.
MaxCalls == 3
MaxInFlight == 2

\* The locals of a handler: at is the await it waits at, read the document
\* as findById returned it, idea that document with the handler's
\* assignments, status the outcome of the operation awaited last.
NoHandler ==
    [route |-> "none", at |-> "idle", user |-> "",
     body |-> [category |-> Undefined, targetAudience |-> Undefined,
               requiredFunding |-> Undefined, location |-> Undefined],
     read |-> NoDoc, idea |-> NoDoc, authorLocation |-> Undefined, status |-> 0]
NoHandlers == [p \in 1..MaxCalls |-> NoHandler]

(* ------------------------------ State ------------------------------ *)

VARIABLES
    pc,        \* where the process is: inside initModel, serving, or dead
    run,       \* which process start this is
    model,     \* the module's LogisticRegression instance
    file,      \* content of MODEL_PATH
    csv,       \* content of CSV_PATH
    writable,  \* whether writes under ML_DIR succeed
    data,      \* the dataset initModel holds while it trains
    epoch,     \* epochs of train completed
    trace,     \* what initModel has done in this process, in order
    call,      \* the last public call served and what it returned
    hist,      \* history: the load of this process, and the first save
    profile,   \* the location field of the author's User document
    doc,       \* the Idea document in the database
    reply,     \* the last response a route sent
    handlers,  \* the create, update, delete and explanation requests in flight
    reqs,      \* the express-interest requests in flight
    grad,      \* the locals of train inside an epoch: i, gradW, gradB
    gen,       \* the running invocation of generateSyntheticDataset
    outs       \* what the finished invocations returned

engine == <<pc, run, model, file, csv, writable, data, epoch, trace, call, hist>>
web == <<profile, doc, reply, handlers>>
gens == <<gen, outs>>
outside == <<web, reqs, grad, gens>>
vars == <<pc, run, model, file, csv, writable, data, epoch, trace, call, hist,
          profile, doc, reply, handlers, reqs, grad, gen, outs>>

NoCall ==
    [op |-> "none", idea |-> Idea(Undefined, Undefined, Undefined, Undefined, Undefined),
     threw |-> FALSE, x |-> <<>>, probability |-> Undefined, terms |-> <<>>,
     phase |-> ""]

NoSave == [by |-> 0, model |-> NewModel(0)]

Init ==
    /\ pc = "load"
    /\ run = 1
    /\ model = NewModel(featureDim)
    /\ file \in PersistedFiles
    /\ csv = NoCsv
    /\ writable \in BOOLEAN
    /\ data = NoData
    /\ epoch = 0
    /\ trace = <<>>
    /\ call = NoCall
    /\ hist = [fileAtLoad |-> AbsentFile, csvAtLoad |-> NoCsv, load |-> "none",
               saved |-> NoSave]
    /\ profile = Undefined
    /\ doc = NoDoc
    /\ reply = NoReply
    /\ handlers = NoHandlers
    /\ reqs = NoRequests
    /\ grad = NoGrad
    /\ gen = NoGen
    /\ outs = <<>>

(* ---------------------- initModel, step by step ---------------------- *)

\* Variant of Load without the early return.
LoadThenAlwaysTrain ==
    /\ pc = "load"
    /\ LET r == loadModel(file, model)
       IN  /\ model' = r.model
           /\ pc' = IF r.threw THEN "crashed" ELSE "generate"
           /\ hist' = [hist EXCEPT !.fileAtLoad = file, !.csvAtLoad = csv,
                          !.load = IF r.threw THEN "threw"
                                   ELSE IF r.ok THEN "loaded" ELSE "absent"]
    /\ trace' = Append(trace, "load")
    /\ UNCHANGED <<run, file, csv, writable, data, epoch, call>>
    /\ UNCHANGED outside

\* const loaded = loadModel(model); if (loaded) return;
Load ==
    /\ pc = "load"
    /\ LET r == loadModel(file, model)
       IN  /\ model' = r.model
           /\ pc' = IF r.threw THEN "crashed" ELSE IF r.ok THEN "ready" ELSE "generate"
           /\ hist' = [hist EXCEPT !.fileAtLoad = file, !.csvAtLoad = csv,
                          !.load = IF r.threw THEN "threw"
                                   ELSE IF r.ok THEN "loaded" ELSE "absent"]
    /\ trace' = Append(trace, "load")
    /\ UNCHANGED <<run, file, csv, writable, data, epoch, call>>
    /\ UNCHANGED outside

\* const { X, y, rawRows } = generateSyntheticDataset(1500, 123);
Generate ==
    /\ pc = "generate"
    /\ data' = generateSyntheticDataset(TrainSamples, Seed)
    /\ epoch' = 0
    /\ pc' = "train"
    /\ trace' = Append(trace, "generate")
    /\ UNCHANGED <<run, model, file, csv, writable, call, hist>>
    /\ UNCHANGED outside

\* model.train(X, y, { learningRate: 0.5, epochs: 500 }): one epoch
TrainEpoch ==
    /\ pc = "train"
    /\ epoch < TrainEpochs
    /\ model' = trainEpoch(model, data.X, data.y, LearningRate)
    /\ epoch' = epoch + 1
    /\ UNCHANGED <<pc, run, file, csv, writable, data, trace, call, hist>>
    /\ UNCHANGED outside

\* Variant in which train may stop after any epoch and the process goes on
\* to serve.
TrainAbortSwallowed ==
    /\ pc = "train"
    /\ pc' = "ready"
    /\ trace' = Append(trace, "train")
    /\ UNCHANGED <<run, model, file, csv, writable, data, epoch, call, hist>>
    /\ UNCHANGED outside

\* model.train: the epoch loop ends and train returns
TrainDone ==
    /\ pc = "train"
    /\ ~(epoch < TrainEpochs)
    /\ pc' = "save"
    /\ trace' = Append(trace, "train")
    /\ UNCHANGED <<run, model, file, csv, writable, data, epoch, call, hist>>
    /\ UNCHANGED outside

\* saveModel(model);
Save ==
    /\ pc = "save"
    /\ IF writable
       THEN /\ file' = saveModel(model)
            /\ pc' = "csv"
            /\ trace' = Append(trace, "save")
            /\ hist' = IF hist.saved.by = 0
                       THEN [hist EXCEPT !.saved = [by |-> run, model |-> model]]
                       ELSE hist
       ELSE /\ pc' = "crashed"
            /\ \/ file' = file              \* mkdirSync or the open failed
               \/ file' = GarbageFile       \* the write failed after the open
            /\ UNCHANGED <<trace, hist>>
    /\ UNCHANGED <<run, model, csv, writable, data, epoch, call>>
    /\ UNCHANGED outside

\* saveCsv(rawRows); and initModel returns
SaveCsv ==
    /\ pc = "csv"
    /\ IF writable
       THEN /\ csv' = saveCsv(data.rawRows)
            /\ pc' = "ready"
            /\ trace' = Append(trace, "csv")
       ELSE /\ pc' = "crashed"
            /\ \/ csv' = csv                \* mkdirSync or the open failed
               \/ \E k \in 0..Len(data.rawRows) :   \* the write failed after the open
                     /\ k < Len(data.rawRows) \/ k = 0
                     /\ csv' = cutCsv(data.rawRows, k)
            /\ UNCHANGED trace
    /\ data' = NoData
    /\ UNCHANGED <<run, model, file, writable, epoch, call, hist>>
    /\ UNCHANGED outside

\* Writes under ML_DIR start to fail while the process initialises.
DiskFault ==
    /\ pc \in {"generate", "train", "save", "csv"}
    /\ writable
    /\ writable' = FALSE
    /\ UNCHANGED <<pc, run, model, file, csv, data, epoch, trace, call, hist>>
    /\ UNCHANGED outside

(* ----------------------------- Serving ----------------------------- *)

\* The exports exist once the module body, initModel included, has been
\* evaluated without throwing; importers run only after that.
\* Variant: exports reachable while initModel still runs.
ExportsAvailableEarly == pc \in {"train", "save", "csv", "ready"}
ExportsAvailable == pc = "ready"

\* Variant in which a call sends the process back into initModel.
PredictThenReinit ==
    /\ ExportsAvailable
    /\ call.op = "none"
    /\ \E idea \in Ideas :
          LET r == predictSuccessRate(model, idea)
          IN  call' = [op |-> "predict", idea |-> idea, threw |-> r.threw, x |-> r.x,
                       probability |-> r.probability, terms |-> r.terms, phase |-> pc]
    /\ pc' = "load"
    /\ trace' = <<>>
    /\ UNCHANGED <<run, model, file, csv, writable, data, epoch, hist>>
    /\ UNCHANGED outside

\* A caller invokes predictSuccessRate(idea); the call runs to completion.
Predict ==
    /\ ExportsAvailable
    /\ call.op = "none"
    /\ \E idea \in Ideas :
          LET r == predictSuccessRate(model, idea)
          IN  call' = [op |-> "predict", idea |-> idea, threw |-> r.threw, x |-> r.x,
                       probability |-> r.probability, terms |-> r.terms, phase |-> pc]
    /\ UNCHANGED <<pc, run, model, file, csv, writable, data, epoch, trace, hist>>
    /\ UNCHANGED outside

\* A caller invokes getSuccessRateExplanation(idea); the call runs to
\* completion.
Explain ==
    /\ ExportsAvailable
    /\ call.op = "none"
    /\ \E idea \in Ideas :
          LET r == getSuccessRateExplanation(model, idea)
          IN  call' = [op |-> "explain", idea |-> idea, threw |-> r.threw, x |-> r.x,
                       probability |-> r.probability, terms |-> r.terms, phase |-> pc]
    /\ UNCHANGED <<pc, run, model, file, csv, writable, data, epoch, trace, hist>>
    /\ UNCHANGED outside

\* The caller has taken the result of the last call; the next call may come.
Return ==
    /\ call.op # "none"
    /\ call' = NoCall
    /\ UNCHANGED <<pc, run, model, file, csv, writable, data, epoch, trace, hist>>
    /\ UNCHANGED outside

\* The process ends (it served, or its start-up threw) and a new one starts:
\* the module is evaluated afresh, the files stay as they are.
Restart ==
    /\ pc \in {"ready", "crashed"}
    /\ run < MaxRuns
    /\ run' = run + 1
    /\ pc' = "load"
    /\ model' = NewModel(featureDim)
    /\ writable' \in BOOLEAN
    /\ data' = NoData
    /\ epoch' = 0
    /\ trace' = <<>>
    /\ call' = NoCall
    /\ hist' = [hist EXCEPT !.fileAtLoad = AbsentFile, !.csvAtLoad = NoCsv, !.load = "none"]
    /\ UNCHANGED <<file, csv>>
    /\ UNCHANGED outside

Next ==
    \/ Load
    \/ Generate
    \/ TrainEpoch
    \/ TrainDone
    \/ Save
    \/ SaveCsv
    \/ DiskFault
    \/ Predict
    \/ Explain
    \/ Return
    \/ Restart

Spec == Init /\ [][Next]_vars

(* ------------------- train, one statement at a time ------------------- *)

\* Seeds of the datasets train is run on, and the models it starts from.
TrainSeeds == {123, 42, 7, 2024}
StartModels ==
    {NewModel(featureDim),
     loadModel(JsonObjectFile(TRUE, FiniteWeights, TNum(-200)), NewModel(featureDim)).model}

\* let gradW = new Array(this.weights.length).fill(0); let gradB = 0;
epochStart(m, start) ==
    [i |-> 0, gradW |-> [j \in 1..Len(m.weights) |-> Zero], gradB |-> Zero,
     start |-> start]

\* initModel has generated the dataset and calls model.train(X, y, ...).
TrainInit ==
    /\ pc = "train"
    /\ run = 1
    /\ file = AbsentFile
    /\ csv = NoCsv
    /\ writable = TRUE
    /\ \E n \in 1..TrainSamples, seed \in TrainSeeds :
          data = generateSyntheticDataset(n, seed)
    /\ model \in StartModels
    /\ epoch = 0
    /\ trace = <<"load", "generate">>
    /\ call = NoCall
    /\ hist = [fileAtLoad |-> AbsentFile, csvAtLoad |-> NoCsv, load |-> "absent",
               saved |-> NoSave]
    /\ grad = epochStart(model, model)
    /\ profile = Undefined
    /\ doc = NoDoc
    /\ reply = NoReply
    /\ handlers = NoHandlers
    /\ reqs = NoRequests
    /\ gen = NoGen
    /\ outs = <<>>

\* The body of the loop over the examples, for example i + 1.
\* Variant that moves the weights and the bias after every example.
TrainExampleUpdatesNow ==
    /\ pc = "train"
    /\ epoch < TrainEpochs
    /\ grad.i < Len(data.X)
    /\ LET i == grad.i + 1
           error == Sub(predictProba(model, data.X[i]), Fin(data.y[i] * Scale))
           n == Len(data.X)
       IN  /\ grad' = [grad EXCEPT !.i = i,
                                   !.gradW = [j \in 1..Len(model.weights) |-> Zero],
                                   !.gradB = Zero]
           /\ model' = [weights |-> [j \in 1..Len(model.weights) |->
                                        Sub(model.weights[j],
                                            stepTimes(LearningRate, n,
                                                      Mul(error, data.X[i][j])))],
                        bias |-> Sub(model.bias, stepTimes(LearningRate, n, error))]
    /\ UNCHANGED <<pc, run, file, csv, writable, data, epoch, trace, call, hist>>
    /\ UNCHANGED <<web, reqs, gens>>
TrainExample ==
    /\ pc = "train"
    /\ epoch < TrainEpochs
    /\ grad.i < Len(data.X)
    /\ LET i == grad.i + 1
           error == Sub(predictProba(model, data.X[i]), Fin(data.y[i] * Scale))
       IN  grad' = [grad EXCEPT !.i = i,
                                !.gradW = [j \in 1..Len(model.weights) |->
                                              Add(grad.gradW[j], Mul(error, data.X[i][j]))],
                                !.gradB = Add(grad.gradB, error)]
    /\ UNCHANGED <<pc, run, model, file, csv, writable, data, epoch, trace, call, hist>>
    /\ UNCHANGED <<web, reqs, gens>>

\* The two update statements that end an epoch.
TrainUpdate ==
    /\ pc = "train"
    /\ epoch < TrainEpochs
    /\ grad.i = Len(data.X)
    /\ LET n == Len(data.X)
       IN  model' = [weights |-> [j \in 1..Len(model.weights) |->
                                     Sub(model.weights[j],
                                         stepTimes(LearningRate, n, grad.gradW[j]))],
                     bias |-> Sub(model.bias, stepTimes(LearningRate, n, grad.gradB))]
    /\ epoch' = epoch + 1
    /\ grad' = epochStart(model, grad.start)
    /\ UNCHANGED <<pc, run, file, csv, writable, data, trace, call, hist>>
    /\ UNCHANGED <<web, reqs, gens>>

\* The epoch loop ends and train returns to initModel.
TrainReturn ==
    /\ pc = "train"
    /\ ~(epoch < TrainEpochs)
    /\ pc' = "save"
    /\ trace' = Append(trace, "train")
    /\ UNCHANGED <<run, model, file, csv, writable, data, epoch, call, hist>>
    /\ UNCHANGED <<web, reqs, grad, gens>>

TrainNext ==
    \/ TrainExample
    \/ TrainUpdate
    \/ TrainReturn

TrainSpec == TrainInit /\ [][TrainNext]_vars

(* ------------- generateSyntheticDataset, one row at a time ------------- *)

\* Invocations a run follows, and the seeds they are given: the seed from
\* which the first value rand() yields is the greatest it can yield,
\* (2^32 - 1) / 2^32, and the seed from which the second value it yields is 0.
MaxInvocations == 3
GenSeeds == {394144346, 631835670}

\* The values rand() yields during the loop iteration that starts in `state`,
\* in order.
rowYields(state) ==
    LET d == randCalls(state, MaxCallsPerRow)
    IN  [k \in 1..(4 + audienceCount(d, 4) + 1) |-> randValue(d[k].out)]

\* initModel has found no model to load and is about to generate.
GenInit ==
    /\ pc = "generate"
    /\ run = 1
    /\ model = NewModel(featureDim)
    /\ file = AbsentFile
    /\ csv = NoCsv
    /\ writable = TRUE
    /\ data = NoData
    /\ epoch = 0
    /\ trace = <<"load">>
    /\ call = NoCall
    /\ hist = [fileAtLoad |-> AbsentFile, csvAtLoad |-> NoCsv, load |-> "absent",
               saved |-> NoSave]
    /\ profile = Undefined
    /\ doc = NoDoc
    /\ reply = NoReply
    /\ handlers = NoHandlers
    /\ reqs = NoRequests
    /\ grad = NoGrad
    /\ gen = NoGen
    /\ outs = <<>>

\* let rand = mulberry32(seed); const X = []; const y = []; const rawRows = [];
\* Variant whose generator does not start from the seed it is given.
GenCallUnseeded ==
    /\ ~gen.running
    /\ Len(outs) < MaxInvocations
    /\ \E numSamples \in 1..TrainSamples, seed \in GenSeeds, other \in GenSeeds :
          gen' = [running |-> TRUE, numSamples |-> numSamples, seed |-> seed,
                  state |-> mulberry32(other), yields |-> <<>>,
                  X |-> <<>>, y |-> <<>>, rawRows |-> <<>>]
    /\ UNCHANGED <<outs, engine, web, reqs, grad>>
GenCall ==
    /\ ~gen.running
    /\ Len(outs) < MaxInvocations
    /\ \E numSamples \in 1..TrainSamples, seed \in GenSeeds :
          gen' = [running |-> TRUE, numSamples |-> numSamples, seed |-> seed,
                  state |-> mulberry32(seed), yields |-> <<>>,
                  X |-> <<>>, y |-> <<>>, rawRows |-> <<>>]
    /\ UNCHANGED <<outs, engine, web, reqs, grad>>

\* One iteration of the loop over i.
GenRow ==
    /\ gen.running
    /\ Len(gen.X) < gen.numSamples
    /\ LET row == generateRow(gen.state)
       IN  gen' = [gen EXCEPT !.state = row.state,
                              !.yields = @ \o rowYields(gen.state),
                              !.X = Append(@, row.x),
                              !.y = Append(@, row.y),
                              !.rawRows = Append(@, row.raw)]
    /\ UNCHANGED <<outs, engine, web, reqs, grad>>

\* return { X, y, rawRows };
GenReturn ==
    /\ gen.running
    /\ ~(Len(gen.X) < gen.numSamples)
    /\ outs' = Append(outs, [numSamples |-> gen.numSamples, seed |-> gen.seed,
                             yields |-> gen.yields,
                             X |-> gen.X, y |-> gen.y, rawRows |-> gen.rawRows])
    /\ gen' = NoGen
    /\ UNCHANGED <<engine, web, reqs, grad>>

GenNext ==
    \/ GenCall
    \/ GenRow
    \/ GenReturn

GenSpec == GenInit /\ [][GenNext]_vars

(* ------------------------------ Idea routes ------------------------------ *)
(* Every handler is an async function: it runs up to an await, the awaited  *)
(* operation takes effect, and the handler resumes later; other handlers    *)
(* run in between.  Each part between two awaits is one step, and so is the *)
(* effect of a save or a remove on the stored document.                     *)

\* What a request body may carry.
BodyCategories == {Str("technology"), Str("other")}
BodyFundings == {Fin(250000)}
BodyAudiences == {Str(Text(40)), Undefined}
BodyLocations == {Undefined, Str(""), Str("unknown"), Str("rural"), Str("mars")}
\* What the author's User document may hold as location.
Profiles == {Undefined, Str("urban"), Str("coastal")}
\* Who sends an update.
Requesters == {"author", "stranger"}

\* The process serves with a model it adopted from the model file.
ServingEngine ==
    /\ pc = "ready"
    /\ run = 1
    /\ file = JsonObjectFile(TRUE, FiniteWeights, TNum(-200))
    /\ model = loadModel(file, NewModel(featureDim)).model
    /\ csv = NoCsv
    /\ writable = TRUE
    /\ data = NoData
    /\ epoch = 0
    /\ trace = <<"load">>
    /\ call = NoCall
    /\ hist = [fileAtLoad |-> file, csvAtLoad |-> NoCsv, load |-> "loaded",
               saved |-> NoSave]

RoutesInit ==
    /\ ServingEngine
    /\ profile \in Profiles
    /\ doc = NoDoc
    /\ reply = NoReply
    /\ handlers = NoHandlers
    /\ reqs = NoRequests
    /\ grad = NoGrad
    /\ gen = NoGen
    /\ outs = <<>>

\* The signal the create and update routes hand to predictSuccessRate.
routeSignal(category, targetAudience, requiredFunding, authorLocation) ==
    [category |-> category, requiredFunding |-> requiredFunding,
     targetAudience |-> targetAudience, authorLocation |-> authorLocation,
     location |-> Undefined]

sendStatus(route, status) == [NoReply EXCEPT !.route = route, !.status = status]

\* What a request to the create or update route may carry as req.body.
Bodies ==
    [category : BodyCategories, targetAudience : BodyAudiences,
     requiredFunding : BodyFundings, location : BodyLocations]

\* The next request arrives and takes the next free place; fewer than
\* MaxInFlight handlers have started and not answered yet.
arrives(p) ==
    /\ handlers[p].at = "idle"
    /\ \A q \in 1..(p - 1) : handlers[q].at # "idle"
    /\ Cardinality({q \in 1..MaxCalls : handlers[q].at \notin {"idle", "done"}})
          < MaxInFlight

\* The handler has answered; its locals are gone.
answered(h, status) == [NoHandler EXCEPT !.route = h.route, !.at = "done", !.status = status]

\* idea.successRate = successRate, for the value predictSuccessRate resolved
\* with when given the location `passed`.
rated(idea, probability, passed) ==
    [idea EXCEPT !.successRate = probability, !.ratedWith = passed]

\* The update save() sends for a document that was read as `read` and now is
\* `idea`, applied to the stored document: only the paths whose value was
\* changed are set.  ratedWith goes where successRate goes.
savedOver(stored, read, idea) ==
    [stored EXCEPT
        !.category = IF idea.category # read.category THEN idea.category ELSE @,
        !.targetAudience = IF idea.targetAudience # read.targetAudience
                           THEN idea.targetAudience ELSE @,
        !.requiredFunding = IF idea.requiredFunding # read.requiredFunding
                            THEN idea.requiredFunding ELSE @,
        !.location = IF idea.location # read.location THEN idea.location ELSE @,
        !.successRate = IF idea.successRate # read.successRate THEN idea.successRate ELSE @,
        !.ratedWith = IF idea.successRate # read.successRate THEN idea.ratedWith ELSE @]

(* POST /api/ideas *)

\* The request arrives: new Idea({...}), then await User.findById(...).  The
\* run follows one idea, so one request creates it.
PostIdea(p) ==
    /\ arrives(p)
    /\ ~doc.exists
    /\ \A q \in 1..MaxCalls : handlers[q].route # "create"
    /\ \E body \in Bodies :
          handlers' = [handlers EXCEPT ![p] =
              [NoHandler EXCEPT
                  !.route = "create", !.at = "author", !.user = "author", !.body = body,
                  !.idea = newIdea(body.category, body.targetAudience,
                                   body.requiredFunding,
                                   OrElse(body.location, Undefined))]]
    /\ UNCHANGED <<profile, doc, reply, engine, reqs, grad, gens>>

\* findById resolved: authorLocation, then await predictSuccessRate({...})
PostAuthor(p) ==
    /\ handlers[p].route = "create" /\ handlers[p].at = "author"
    /\ handlers' = [handlers EXCEPT ![p].at = "rate",
                                    ![p].authorLocation = authorLocationOf(profile)]
    /\ UNCHANGED <<profile, doc, reply, engine, reqs, grad, gens>>

\* predictSuccessRate settled: newIdea.successRate = successRate, then
\* await newIdea.save(); a rejection goes to the catch block.
PostRated(p) ==
    /\ handlers[p].route = "create" /\ handlers[p].at = "rate"
    /\ LET h == handlers[p]
           passed == effectiveLocation(h.body.location, h.authorLocation)
           r == predictSuccessRate(model, routeSignal(h.body.category, h.body.targetAudience,
                                                      h.body.requiredFunding, passed))
       IN  IF r.threw
           THEN /\ handlers' = [handlers EXCEPT ![p] = answered(h, 500)]
                /\ reply' = sendStatus("create", 500)
           ELSE /\ handlers' = [handlers EXCEPT ![p].at = "save",
                                    ![p].idea = rated(h.idea, r.probability, passed)]
                /\ UNCHANGED reply
    /\ UNCHANGED <<profile, doc, engine, reqs, grad, gens>>

\* save() of the new document: validation, then the insert.
PostSave(p) ==
    /\ handlers[p].route = "create" /\ handlers[p].at = "save"
    /\ IF validates(handlers[p].idea)
       THEN /\ doc' = handlers[p].idea
            /\ handlers' = [handlers EXCEPT ![p].at = "saved", ![p].status = 200]
       ELSE /\ handlers' = [handlers EXCEPT ![p].at = "saved", ![p].status = 500]
            /\ UNCHANGED doc
    /\ UNCHANGED <<profile, reply, engine, reqs, grad, gens>>

\* save() settled: res.json(idea), or the catch block
PostRespond(p) ==
    /\ handlers[p].route = "create" /\ handlers[p].at = "saved"
    /\ LET h == handlers[p]
       IN  /\ reply' = IF h.status = 200
                       THEN [sendStatus("create", 200) EXCEPT
                                !.authorLocation = h.idea.ratedWith,
                                !.successRate = h.idea.successRate,
                                !.idea = h.idea]
                       ELSE sendStatus("create", 500)
           /\ handlers' = [handlers EXCEPT ![p] = answered(h, h.status)]
    /\ UNCHANGED <<profile, doc, engine, reqs, grad, gens>>

(* PUT /api/ideas/:id *)

\* The request arrives: await Idea.findById(req.params.id) reads the stored
\* document.
PutIdea(p) ==
    /\ arrives(p)
    /\ \E user \in Requesters, body \in Bodies :
          handlers' = [handlers EXCEPT ![p] =
              [NoHandler EXCEPT !.route = "update", !.at = "find", !.user = user,
                                !.body = body, !.read = doc, !.idea = doc]]
    /\ UNCHANGED <<profile, doc, reply, engine, reqs, grad, gens>>

\* findById resolved: 404, 401, or the assignments to the document and
\* await User.findById(...)
PutFound(p) ==
    /\ handlers[p].route = "update" /\ handlers[p].at = "find"
    /\ LET h == handlers[p]
       IN  IF ~h.read.exists
           THEN /\ handlers' = [handlers EXCEPT ![p] = answered(h, 404)]
                /\ reply' = sendStatus("update", 404)
           ELSE IF h.user # "author"
           THEN /\ handlers' = [handlers EXCEPT ![p] = answered(h, 401)]
                /\ reply' = sendStatus("update", 401)
           ELSE /\ handlers' = [handlers EXCEPT
                       ![p].at = "author",
                       ![p].idea = [h.read EXCEPT
                           !.category = h.body.category,
                           !.targetAudience = h.body.targetAudience,
                           !.requiredFunding = h.body.requiredFunding,
                           !.location = IF Truthy(h.body.location)
                                        THEN h.body.location ELSE @]]
                /\ UNCHANGED reply
    /\ UNCHANGED <<profile, doc, engine, reqs, grad, gens>>

\* findById of the user resolved: authorLocation, then
\* await predictSuccessRate({...})
PutAuthor(p) ==
    /\ handlers[p].route = "update" /\ handlers[p].at = "author"
    /\ handlers' = [handlers EXCEPT ![p].at = "rate",
                                    ![p].authorLocation = authorLocationOf(profile)]
    /\ UNCHANGED <<profile, doc, reply, engine, reqs, grad, gens>>

\* predictSuccessRate settled: idea.successRate = successRate, then
\* await idea.save(); a rejection goes to the catch block.
PutRated(p) ==
    /\ handlers[p].route = "update" /\ handlers[p].at = "rate"
    /\ LET h == handlers[p]
           passed == effectiveLocation(h.body.location, h.authorLocation)
           r == predictSuccessRate(model, routeSignal(h.body.category, h.body.targetAudience,
                                                      h.body.requiredFunding, passed))
       IN  IF r.threw
           THEN /\ handlers' = [handlers EXCEPT ![p] = answered(h, 500)]
                /\ reply' = sendStatus("update", 500)
           ELSE /\ handlers' = [handlers EXCEPT ![p].at = "save",
                                    ![p].idea = rated(h.idea, r.probability, passed)]
                /\ UNCHANGED reply
    /\ UNCHANGED <<profile, doc, engine, reqs, grad, gens>>

\* save() of the document read earlier: validation, then the update of the
\* stored document, which fails when that document is gone.
PutSave(p) ==
    /\ handlers[p].route = "update" /\ handlers[p].at = "save"
    /\ LET h == handlers[p]
       IN  IF validates(h.idea) /\ doc.exists
           THEN /\ doc' = savedOver(doc, h.read, h.idea)
                /\ handlers' = [handlers EXCEPT ![p].at = "saved", ![p].status = 200]
           ELSE /\ handlers' = [handlers EXCEPT ![p].at = "saved", ![p].status = 500]
                /\ UNCHANGED doc
    /\ UNCHANGED <<profile, reply, engine, reqs, grad, gens>>

\* save() settled: res.json(idea) with the handler's document, or the catch
\* block
PutRespond(p) ==
    /\ handlers[p].route = "update" /\ handlers[p].at = "saved"
    /\ LET h == handlers[p]
       IN  /\ reply' = IF h.status = 200
                       THEN [sendStatus("update", 200) EXCEPT
                                !.authorLocation = h.idea.ratedWith,
                                !.successRate = h.idea.successRate,
                                !.idea = h.idea]
                       ELSE sendStatus("update", 500)
           /\ handlers' = [handlers EXCEPT ![p] = answered(h, h.status)]
    /\ UNCHANGED <<profile, doc, engine, reqs, grad, gens>>

(* DELETE /api/ideas/:id *)

\* The request arrives: await Idea.findById(req.params.id)
DeleteIdea(p) ==
    /\ arrives(p)
    /\ \E user \in Requesters :
          handlers' = [handlers EXCEPT ![p] =
              [NoHandler EXCEPT !.route = "delete", !.at = "find", !.user = user,
                                !.read = doc, !.idea = doc]]
    /\ UNCHANGED <<profile, doc, reply, engine, reqs, grad, gens>>

\* findById resolved: 404, 401, or await idea.remove()
DeleteFound(p) ==
    /\ handlers[p].route = "delete" /\ handlers[p].at = "find"
    /\ LET h == handlers[p]
       IN  IF ~h.read.exists
           THEN /\ handlers' = [handlers EXCEPT ![p] = answered(h, 404)]
                /\ reply' = sendStatus("delete", 404)
           ELSE IF h.user # "author"
           THEN /\ handlers' = [handlers EXCEPT ![p] = answered(h, 401)]
                /\ reply' = sendStatus("delete", 401)
           ELSE /\ handlers' = [handlers EXCEPT ![p].at = "remove"]
                /\ UNCHANGED reply
    /\ UNCHANGED <<profile, doc, engine, reqs, grad, gens>>

\* remove() deletes the stored document, if it is still there.
DeleteRemove(p) ==
    /\ handlers[p].route = "delete" /\ handlers[p].at = "remove"
    /\ doc' = NoDoc
    /\ handlers' = [handlers EXCEPT ![p].at = "removed", ![p].status = 200]
    /\ UNCHANGED <<profile, reply, engine, reqs, grad, gens>>

\* remove() settled: res.json({ msg: 'Idea removed' })
DeleteRespond(p) ==
    /\ handlers[p].route = "delete" /\ handlers[p].at = "removed"
    /\ reply' = sendStatus("delete", 200)
    /\ handlers' = [handlers EXCEPT ![p] = answered(handlers[p], 200)]
    /\ UNCHANGED <<profile, doc, engine, reqs, grad, gens>>

(* GET /api/ideas/:id/explanation *)

\* The request arrives: await Idea.findById(req.params.id)
GetExplanation(p) ==
    /\ arrives(p)
    /\ handlers' = [handlers EXCEPT ![p] =
          [NoHandler EXCEPT !.route = "explanation", !.at = "find", !.read = doc,
                            !.idea = doc]]
    /\ UNCHANGED <<profile, doc, reply, engine, reqs, grad, gens>>

\* findById resolved: 404, or await User.findById(idea.author)
ExplanationFound(p) ==
    /\ handlers[p].route = "explanation" /\ handlers[p].at = "find"
    /\ LET h == handlers[p]
       IN  IF ~h.read.exists
           THEN /\ handlers' = [handlers EXCEPT ![p] = answered(h, 404)]
                /\ reply' = sendStatus("explanation", 404)
           ELSE /\ handlers' = [handlers EXCEPT ![p].at = "author"]
                /\ UNCHANGED reply
    /\ UNCHANGED <<profile, doc, engine, reqs, grad, gens>>

\* findById of the user resolved: the explanation is computed from the
\* document read at the start, and sent.
ExplanationRespond(p) ==
    /\ handlers[p].route = "explanation" /\ handlers[p].at = "author"
    /\ LET h == handlers[p]
           authorLocation == authorLocationOf(profile)
           passed == effectiveLocation(h.idea.location, authorLocation)
           r == getSuccessRateExplanation(
                    model, routeSignal(h.idea.category, h.idea.targetAudience,
                                       h.idea.requiredFunding, passed))
       IN  /\ reply' = IF r.threw
                       THEN sendStatus("explanation", 500)
                       ELSE [sendStatus("explanation", 200) EXCEPT
                                !.authorLocation = passed,
                                !.successRate = h.idea.successRate,
                                !.probability = r.probability,
                                !.terms = r.terms,
                                !.idea = h.idea]
           /\ handlers' = [handlers EXCEPT ![p] = answered(h, IF r.threw THEN 500 ELSE 200)]
    /\ UNCHANGED <<profile, doc, engine, reqs, grad, gens>>

RoutesNext ==
    \E p \in 1..MaxCalls :
        \/ PostIdea(p) \/ PostAuthor(p) \/ PostRated(p) \/ PostSave(p) \/ PostRespond(p)
        \/ PutIdea(p) \/ PutFound(p) \/ PutAuthor(p) \/ PutRated(p) \/ PutSave(p)
        \/ PutRespond(p)
        \/ DeleteIdea(p) \/ DeleteFound(p) \/ DeleteRemove(p) \/ DeleteRespond(p)
        \/ GetExplanation(p) \/ ExplanationFound(p) \/ ExplanationRespond(p)

RoutesSpec == RoutesInit /\ [][RoutesNext]_vars

(* --------------------- PUT /api/ideas/:id/interest --------------------- *)
(* The handler awaits the database three times; other requests run while  *)
(* it waits, so each part between two awaits is one step.                  *)

\* The funders who send requests.
Funders == {"f1", "f2"}

\* An idea some startuper created earlier.
StoredIdea ==
    LET m == loadModel(JsonObjectFile(TRUE, FiniteWeights, TNum(-200)),
                       NewModel(featureDim)).model
        created == newIdea(Str("technology"), Str(Text(40)), Fin(0), Undefined)
        r == predictSuccessRate(m, routeSignal(created.category, created.targetAudience,
                                               created.requiredFunding, Str("unknown")))
    IN  [created EXCEPT !.successRate = r.probability, !.ratedWith = Str("unknown")]

InterestInit ==
    /\ ServingEngine
    /\ profile = Undefined
    /\ doc \in {NoDoc, StoredIdea}
    /\ reply = NoReply
    /\ handlers = NoHandlers
    /\ reqs = NoRequests
    /\ grad = NoGrad
    /\ gen = NoGen
    /\ outs = <<>>

\* includes(req.user.id) on the document the handler holds
includes(list, id) == \E i \in 1..Len(list) : list[i] = id

\* const idea = await Idea.findById(req.params.id); if (!idea) return 404
InterestRead(r) ==
    /\ reqs[r].at = "idle"
    /\ \E funder \in Funders :
          reqs' = [reqs EXCEPT ![r] =
                      IF ~doc.exists
                      THEN [at |-> "done", funder |-> funder, seen |-> <<>>, status |-> 404]
                      ELSE [at |-> "read", funder |-> funder,
                            seen |-> doc.interestedFunders, status |-> 0]]
    /\ UNCHANGED <<profile, doc, reply, handlers, engine, grad, gens>>

\* The check against the document read, then push and await idea.save():
\* save sends the pushed element, which the database appends to the stored
\* array.
InterestSave(r) ==
    /\ reqs[r].at = "read"
    /\ IF includes(reqs[r].seen, reqs[r].funder)
       THEN /\ reqs' = [reqs EXCEPT ![r].at = "done", ![r].status = 400]
            /\ UNCHANGED doc
       ELSE /\ doc' = [doc EXCEPT !.interestedFunders = Append(@, reqs[r].funder)]
            /\ reqs' = [reqs EXCEPT ![r].at = "saved",
                                    ![r].seen = Append(@, reqs[r].funder)]
    /\ UNCHANGED <<profile, reply, handlers, engine, grad, gens>>

\* save() settled; the database executes
\* await Idea.findById(...).populate(...): updatedIdea is the stored document
\* as it is now.
InterestReread(r) ==
    /\ reqs[r].at = "saved"
    /\ reqs' = [reqs EXCEPT ![r].at = "reread", ![r].seen = doc.interestedFunders]
    /\ UNCHANGED <<profile, doc, reply, handlers, engine, grad, gens>>

\* The handler resumes: res.json(updatedIdea), with the list it read.
InterestRespond(r) ==
    /\ reqs[r].at = "reread"
    /\ reqs' = [reqs EXCEPT ![r].at = "done", ![r].status = 200]
    /\ UNCHANGED <<profile, doc, reply, handlers, engine, grad, gens>>

InterestNext ==
    \E r \in 1..MaxRequests :
        \/ InterestRead(r)
        \/ InterestSave(r)
        \/ InterestReread(r)
        \/ InterestRespond(r)

InterestSpec == InterestInit /\ [][InterestNext]_vars

(* ============================ Properties ============================ *)

\* What initModel does, in order, when the load finds no usable model.
FullTrace == <<"load", "generate", "train", "save", "csv">>

IsPrefix(a, b) == Len(a) <= Len(b) /\ SubSeq(b, 1, Len(a)) = a

\* A stored JSON object whose weights member is an array of another length
\* than the current feature dimension.
WrongLength(f) ==
    f.kind = "json" /\ f.top = "object" /\ f.isArray /\ Len(f.weights) # featureDim

\* A stored model that passes every test of the load contract: a JSON object
\* with an array of featureDim weights and a numeric bias.
WellFormed(f) ==
    /\ f.kind = "json" /\ f.top = "object" /\ f.isArray
    /\ Len(f.weights) = featureDim
    /\ f.bias.j \in {"number", "huge"}

\* C1: when the stored weight list has another length than the feature
\* dimension, loadModel reports the model as absent without throwing and
\* leaves the live weights and bias as they were (zero until the first epoch
\* ends), and initModel goes on to generate the dataset and to train all the
\* epochs; the process can then stop only on a write that fails.
C1_WrongLengthRejected ==
    (hist.load # "none" /\ WrongLength(hist.fileAtLoad)) =>
        /\ hist.load = "absent"
        /\ pc \in {"generate", "train", "save", "csv", "ready", "crashed"}
        /\ (pc = "generate" \/ (pc = "train" /\ epoch = 0)) =>
                model = NewModel(featureDim)
        /\ IsPrefix(trace, FullTrace)
        /\ pc \in {"train", "save", "csv", "ready"} => Len(trace) >= 2
        /\ pc \in {"save", "csv", "ready"} => (Len(trace) >= 3 /\ epoch = TrainEpochs)
        /\ pc = "crashed" => ~writable

C1_Witness ==
    /\ pc = "ready"
    /\ hist.load = "absent"
    /\ WrongLength(hist.fileAtLoad)
    /\ Len(hist.fileAtLoad.weights) = 5
    /\ trace = FullTrace

\* C2 (as claimed): whatever the model file holds, unparsable and malformed
\* content included, loadModel returns "absent" and does not raise, so
\* initModel goes on to train.
C2_MalformedIsAbsent ==
    (hist.load # "none" /\ ~WellFormed(hist.fileAtLoad)) =>
        (hist.load = "absent" /\ pc # "crashed")

\* C3: in every process initModel runs at most once, and a public call is
\* served only after it has returned: the model a call reads was either
\* adopted whole from the file or trained for all the epochs.
C3_InitBeforeServing ==
    /\ Cardinality({i \in 1..Len(trace) : trace[i] = "load"}) <= 1
    /\ call.op # "none" =>
          /\ call.phase = "ready"
          /\ pc = "ready"
          /\ \/ hist.load = "loaded" /\ trace = <<"load">>
             \/ hist.load = "absent" /\ trace = FullTrace /\ epoch = TrainEpochs

C3_Witness ==
    /\ call.op = "predict"
    /\ hist.load = "absent"
    /\ epoch = TrainEpochs
    /\ model # NewModel(featureDim)

\* C4: initModel first attempts the load.  When the load succeeds it adopts
\* the stored parameters and does nothing else: no dataset, no training, no
\* write to either file.  When the load reports absent it generates the
\* dataset, trains, saves the model, in this order.
C4_InitOrder ==
    /\ hist.load = "none" => trace = <<>>
    /\ hist.load = "loaded" =>
          /\ trace = <<"load">>
          /\ pc = "ready"
          /\ file = hist.fileAtLoad
          /\ csv = hist.csvAtLoad
          /\ data = NoData
          /\ epoch = 0
          /\ Len(model.weights) = Len(hist.fileAtLoad.weights)
          /\ \A i \in 1..Len(model.weights) :
                model.weights[i] = parseToken(hist.fileAtLoad.weights[i])
          /\ model.bias = parseToken(hist.fileAtLoad.bias)
    /\ hist.load = "absent" =>
          /\ IsPrefix(trace, FullTrace)
          /\ Len(trace) >= 1
          /\ pc = "ready" => trace = FullTrace
          /\ (Len(trace) < 4 /\ pc # "crashed") => file = hist.fileAtLoad
          /\ (Len(trace) < 4 /\ pc = "crashed") => file \in {hist.fileAtLoad, GarbageFile}
          /\ Len(trace) >= 4 => file = saveModel(model)

C4_Witness ==
    /\ run = 2
    /\ hist.load = "loaded"
    /\ hist.saved.by = 1
    /\ pc = "ready"

\* C5: what saveModel wrote, loadModel reads back as the same weights and
\* bias; so once a process has trained and saved, every later process start
\* adopts exactly those parameters and does not train again.
C5_SaveThenLoad ==
    /\ (Len(trace) >= 4 /\ trace[4] = "save") =>
          LET r == loadModel(file, NewModel(featureDim))
          IN  ~r.threw /\ r.ok /\ r.model = model
    /\ (hist.saved.by > 0 /\ run > hist.saved.by /\ hist.load # "none") =>
          /\ hist.load = "loaded"
          /\ pc = "ready"
          /\ model = hist.saved.model
          /\ trace = <<"load">>

C5_Witness ==
    /\ run > 1
    /\ hist.saved.by = 1
    /\ hist.load = "loaded"
    /\ model = hist.saved.model
    /\ model # NewModel(featureDim)

(* ------------------------- Feature encoding ------------------------- *)

\* The closed-set entry a raw value spells when letter case is ignored, ""
\* when it spells none (the values are those of Ideas).
SpelledEntry(v) ==
    IF v.t # "string" THEN ""
    ELSE CASE v.s \in {"technology", "Technology"} -> "technology"
           [] v.s \in {"healthcare", "HEALTHCARE"} -> "healthcare"
           [] v.s = "education" -> "education"
           [] v.s \in {"other", "Other"} -> "other"
           [] v.s \in {"urban", "Urban"} -> "urban"
           [] v.s \in {"rural", "RURAL"} -> "rural"
           [] v.s = "coastal" -> "coastal"
           [] v.s = "unknown" -> "unknown"
           [] OTHER -> ""

\* The position a one-hot block must mark for a raw value: that of the entry
\* it spells, the last one (the fallback bucket) when it spells none.
ExpectedIndex(v, values) ==
    IF \E i \in 1..Len(values) : values[i] = SpelledEntry(v)
    THEN CHOOSE i \in 1..Len(values) : values[i] = SpelledEntry(v)
    ELSE Len(values)

\* The block holds a 1 at position k and 0 everywhere else.
OneHotAt(block, k) == \A i \in 1..Len(block) : block[i] = IF i = k THEN One ELSE Zero

CategoryBlock(x) == SubSeq(x, 1, Len(CATEGORY_VALUES))
LocationBlock(x) == SubSeq(x, Len(CATEGORY_VALUES) + 3, Len(x))
FundingAt == Len(CATEGORY_VALUES) + 1
AudienceAt == Len(CATEGORY_VALUES) + 2

\* The signal a served call encoded.
Signal == normalizeInput(call.idea)

\* C6: the category block and the location block of every encoded signal
\* hold exactly one 1 and otherwise 0; the 1 stands at the index of the
\* closed-set entry the value spells, case ignored, and at the last index
\* ('other' / 'unknown') for every value that spells none, so that such a
\* value is encoded exactly as the fallback value is.
C6_OneHotBlocks ==
    (call.op # "none" /\ ~call.threw) =>
        /\ Len(CategoryBlock(call.x)) = Len(CATEGORY_VALUES)
        /\ Len(LocationBlock(call.x)) = Len(LOCATION_VALUES)
        /\ OneHotAt(CategoryBlock(call.x), ExpectedIndex(Signal.category, CATEGORY_VALUES))
        /\ OneHotAt(LocationBlock(call.x),
                    ExpectedIndex(Signal.authorLocation, LOCATION_VALUES))
        /\ SpelledEntry(Signal.category) = "" =>
              CategoryBlock(call.x) = oneHot(Str("other"), CATEGORY_VALUES)
        /\ SpelledEntry(Signal.authorLocation) = "" =>
              LocationBlock(call.x) = oneHot(Str("unknown"), LOCATION_VALUES)

C6_Witness ==
    /\ call.op = "predict"
    /\ call.idea.category = Str("HEALTHCARE")
    /\ call.idea.authorLocation = Str("mars")
    /\ call.x[3] = One
    /\ call.x[featureDim] = One

\* Raw requiredFunding values that are no number and denote none: Number()
\* maps them to NaN.  (Number() maps true to 1 and "250000" to 250000, which
\* the encoder therefore treats as numbers.)
NonNumericFunding == {Undefined, NaN, Str("abc")}
\* Raw targetAudience values that stand for a missing text.
MissingAudience == {Undefined, Null}

\* C7: buildFeatures never throws; a missing targetAudience gives the vector
\* the empty string gives, with audience feature 0, and a non-numeric or
\* missing requiredFunding gives the vector zero funding gives, with funding
\* feature 0, whatever the other fields are.
C7_MissingInputsCoerced ==
    call.op # "none" =>
        /\ ~call.threw
        /\ call.idea.targetAudience \in MissingAudience =>
              /\ call.x[AudienceAt] = Zero
              /\ call.x = buildFeatures([Signal EXCEPT !.targetAudience = Str("")])
        /\ call.idea.requiredFunding \in NonNumericFunding =>
              /\ call.x[FundingAt] = Zero
              /\ call.x = buildFeatures([Signal EXCEPT !.requiredFunding = Fin(0)])

C7_Witness ==
    /\ call.op = "predict"
    /\ ~call.threw
    /\ call.idea.targetAudience = Undefined
    /\ call.idea.requiredFunding = Str("abc")
    /\ call.idea.category = Str("blockchain")
    /\ call.x[FundingAt] = Zero
    /\ call.x[AudienceAt] = Zero

InUnitInterval(v) == v.t = "number" /\ v.k = "fin" /\ 0 <= v.n /\ v.n <= Scale

\* The audience feature a raw targetAudience must give: length / 200, at most 1.
ExpectedAudience(v) ==
    IF v.t # "string" THEN Zero
    ELSE IF Len(v.s) >= AudienceCap THEN One
    ELSE Fin((Len(v.s) * Scale) \div AudienceCap)

\* C8 (as claimed): the vector has |category set| + 2 + |location set|
\* entries, and every entry lies in [0,1].
C8_AllEntriesInUnitInterval ==
    (call.op # "none" /\ ~call.threw) =>
        /\ Len(call.x) = Len(CATEGORY_VALUES) + 2 + Len(LOCATION_VALUES)
        /\ \A i \in 1..Len(call.x) : InUnitInterval(call.x[i])

\* The amount Number(requiredFunding) || 0 stands for is at most 1e6.
FundingWithinCeiling(v) ==
    LET n == OrElse(ToNumber(v, 1), Fin(0))
    IN  n.k = "ninf" \/ (n.k = "fin" /\ n.n <= FundingCeiling)

\* C8 (amended): the vector has |category set| + 2 + |location set| entries
\* in the order category block, funding, audience, location block; the
\* entries of both blocks and the audience entry lie in [0,1]; the funding
\* entry is a number that is never negative, lies in [0,1] whenever the
\* funding is at most 1,000,000 and exceeds 1 for the larger amounts.
C8_LayoutAndRanges ==
    (call.op # "none" /\ ~call.threw) =>
        /\ Len(call.x) = Len(CATEGORY_VALUES) + 2 + Len(LOCATION_VALUES)
        /\ Len(call.x) = featureDim
        /\ OneHotAt(CategoryBlock(call.x), ExpectedIndex(Signal.category, CATEGORY_VALUES))
        /\ call.x[FundingAt] = logNormalize(Signal.requiredFunding)
        /\ call.x[AudienceAt] = ExpectedAudience(Signal.targetAudience)
        /\ OneHotAt(LocationBlock(call.x),
                    ExpectedIndex(Signal.authorLocation, LOCATION_VALUES))
        /\ \A i \in (1..Len(call.x)) \ {FundingAt} : InUnitInterval(call.x[i])
        /\ call.x[FundingAt].k \in {"fin", "pinf"}
        /\ ~Less(call.x[FundingAt], Zero)
        /\ FundingWithinCeiling(Signal.requiredFunding) => InUnitInterval(call.x[FundingAt])
        /\ Signal.requiredFunding \in {Fin(5000000), PosInf} => Less(One, call.x[FundingAt])

C8_Witness ==
    /\ call.op = "predict"
    /\ call.idea.requiredFunding = Fin(5000000)
    /\ call.idea.targetAudience = Str(Text(100))
    /\ Less(One, call.x[FundingAt])
    /\ call.x[AudienceAt] = Fin(500)

(* ----------------------------- Serving ----------------------------- *)

\* C9 (as claimed): under every model initModel can install, trained or
\* adopted from a file the load accepts, predictSuccessRate returns a number
\* in [0,1] for every signal.
C9_PredictInUnitInterval ==
    (call.op = "predict" /\ ~call.threw) => InUnitInterval(call.probability)

\* C10: an explanation has exactly four terms, in the order category,
\* funding, audience, location; the category and the location term name the
\* bucket the value spells, and the fallback bucket ('other' / 'unknown')
\* when it spells none.
C10_FourTerms ==
    (call.op = "explain" /\ ~call.threw) =>
        /\ Len(call.terms) = 4
        /\ call.terms[1].feature =
              "category:" \o CATEGORY_VALUES[ExpectedIndex(Signal.category, CATEGORY_VALUES)]
        /\ call.terms[2].feature = "requiredFunding(log-normalized)"
        /\ call.terms[3].feature = "targetAudienceLength(norm)"
        /\ call.terms[4].feature =
              "authorLocation:"
                  \o LOCATION_VALUES[ExpectedIndex(Signal.authorLocation, LOCATION_VALUES)]

C10_Witness ==
    /\ call.op = "explain"
    /\ call.idea.category = Str("blockchain")
    /\ call.idea.authorLocation = Str("mars")
    /\ Len(call.terms) = 4
    /\ call.terms[1].feature = "category:other"
    /\ call.terms[4].feature = "authorLocation:unknown"

\* C11: a step that serves a predictSuccessRate or getSuccessRateExplanation
\* call changes neither the weights and bias nor the model file nor the CSV
\* file, and leaves the process where it was: initialised, with nothing
\* generated, trained or loaded again.  As this holds of every such step it
\* holds of every sequence of calls.
C11_CallsChangeNothing ==
    [][(call' # call /\ call'.op # "none") =>
          /\ call.op = "none"
          /\ pc = "ready" /\ pc' = "ready"
          /\ UNCHANGED <<model, file, csv, run, epoch, trace, data, hist>>]_vars

C11_Witness ==
    /\ call.op = "explain"
    /\ pc = "ready"
    /\ hist.load = "absent"
    /\ hist.saved.by = run
    /\ model = hist.saved.model
    /\ model # NewModel(featureDim)
    /\ file = saveModel(model)
    /\ csv.exists

\* The index of the entry of the block x[from..to] the encoder set to 1.
ActiveIndex(x, from, to) == CHOOSE i \in from..to : x[i] = One

\* C17: in every explanation the category term and the location term carry
\* the weight stored at the index of the one-hot entry the encoder set for
\* the signal, and no value; the funding term and the audience term carry
\* the weights at (0-based) indices |category set| and |category set| + 1
\* and the feature values at those indices; the probability is the one
\* predictSuccessRate gives for the same signal under the same model.
C17_TermsCarryWeights ==
    (call.op = "explain" /\ ~call.threw) =>
        /\ Len(call.terms) = 4
        /\ call.x = buildFeatures(Signal)
        /\ call.terms[1].weight = model.weights[ActiveIndex(call.x, 1, Len(CATEGORY_VALUES))]
        /\ ActiveIndex(call.x, 1, Len(CATEGORY_VALUES))
              = ExpectedIndex(Signal.category, CATEGORY_VALUES)
        /\ ~call.terms[1].hasValue
        /\ call.terms[2].weight = model.weights[FundingAt]
        /\ call.terms[2].hasValue /\ call.terms[2].value = call.x[FundingAt]
        /\ call.terms[3].weight = model.weights[AudienceAt]
        /\ call.terms[3].hasValue /\ call.terms[3].value = call.x[AudienceAt]
        /\ call.terms[4].weight = model.weights[ActiveIndex(call.x, AudienceAt + 1, featureDim)]
        /\ ActiveIndex(call.x, AudienceAt + 1, featureDim)
              = AudienceAt + ExpectedIndex(Signal.authorLocation, LOCATION_VALUES)
        /\ ~call.terms[4].hasValue
        /\ call.probability = predictSuccessRate(model, call.idea).probability

C17_Witness ==
    /\ call.op = "explain"
    /\ hist.load = "absent"
    /\ epoch = TrainEpochs
    /\ model # NewModel(featureDim)
    /\ call.idea.category = Str("HEALTHCARE")
    /\ call.idea.authorLocation = Str("Urban")
    /\ call.idea.requiredFunding = Fin(250000)
    /\ call.terms[1].weight = model.weights[3]
    /\ call.terms[2].weight # call.terms[3].weight
    /\ call.terms[2].value = Fin(899)
    /\ call.terms[4].weight = model.weights[9]
    /\ call.probability = clamp01(predictProba(model, call.x))

(* ------------------------------ Training ------------------------------ *)

\* The dataset initModel trains on.
StartupData == generateSyntheticDataset(TrainSamples, Seed)

\* The parameters after k whole epochs on the start-up dataset, from zero.
RECURSIVE TrainedFor(_)
TrainedFor(k) ==
    IF k = 0 THEN NewModel(featureDim)
    ELSE trainEpoch(TrainedFor(k - 1), StartupData.X, StartupData.y, LearningRate)

FullyTrained == TrainedFor(TrainEpochs)

\* C13: while the live model is untrained or partially trained (initModel has
\* not finished the epochs) no call can read it; a process whose initModel
\* failed serves no call at all, and its model is then the zero model (the
\* load threw) or the fully trained one (a write after training failed);
\* whatever model a call reads was adopted whole from the file or trained
\* for all the epochs.
C13_NoPartialModelServed ==
    /\ (hist.load = "absent" /\ (pc = "generate" \/ (pc = "train" /\ epoch < TrainEpochs))) =>
          /\ ~ExportsAvailable
          /\ call.op = "none"
    /\ pc = "crashed" =>
          /\ ~ExportsAvailable
          /\ call.op = "none"
          /\ hist.load \in {"threw", "absent"}
          /\ hist.load = "threw" => model = NewModel(featureDim)
          /\ hist.load = "absent" =>
                (epoch = TrainEpochs /\ model = FullyTrained /\ ~writable)
    /\ call.op # "none" =>
          \/ hist.load = "loaded" /\ model = loadModel(file, NewModel(featureDim)).model
          \/ hist.load = "absent" /\ model = FullyTrained

C13_Witness ==
    /\ pc = "crashed"
    /\ hist.load = "absent"
    /\ trace = <<"load", "generate", "train">>
    /\ epoch = TrainEpochs
    /\ model = FullyTrained
    /\ model # NewModel(featureDim)

\* The sum of the errors of the examples 1..k against the parameters m.
RECURSIVE ErrorSum(_, _, _, _)
ErrorSum(m, X, y, k) ==
    IF k = 0 THEN Zero
    ELSE Add(ErrorSum(m, X, y, k - 1), Sub(predictProba(m, X[k]), Fin(y[k] * Scale)))

\* C14: inside train, a step that does not end an epoch leaves the weights
\* and the bias as they are, and the errors accumulated so far are those of
\* the examples seen against these unchanged parameters; the step that ends
\* an epoch comes after all N examples and moves every weight and the bias
\* once, by the full-batch gradient of the parameters the epoch started with;
\* train returns only after exactly `epochs` such steps, never earlier.
C14_FullBatch ==
    [][/\ epoch' \in {epoch, epoch + 1}
       /\ epoch' = epoch => model' = model
       /\ epoch' = epoch + 1 =>
             /\ grad.i = Len(data.X)
             /\ Len(model'.weights) = Len(model.weights)
             /\ model' = trainEpoch(model, data.X, data.y, LearningRate)
             /\ grad'.i = 0
       /\ (pc' = "train" /\ grad'.i > 0) =>
             /\ grad'.i = grad.i + 1
             /\ grad'.gradB = ErrorSum(model', data.X, data.y, grad'.i)
       /\ pc' # "train" => (epoch = TrainEpochs /\ grad.i = 0)]_vars

C14_Witness ==
    /\ pc = "save"
    /\ epoch = TrainEpochs
    /\ Len(data.X) = TrainSamples
    /\ grad.start = NewModel(featureDim)
    /\ model # grad.start

(* ---------------------------- Hidden label rule ---------------------------- *)

\* The orders claimed for the base constants, highest first.
ClaimedCategoryOrder ==
    <<"technology", "healthcare", "education", "infrastructure", "agriculture", "other">>
ClaimedLocationOrder == <<"urban", "suburban", "coastal", "inland", "rural", "unknown">>

\* The category base constants fall strictly along ClaimedCategoryOrder.
CategoryBasesDescend ==
    \A i \in 1..(Len(ClaimedCategoryOrder) - 1) :
        Less(categoryBase(Str(ClaimedCategoryOrder[i + 1])),
             categoryBase(Str(ClaimedCategoryOrder[i])))

\* The location base constants fall strictly along ClaimedLocationOrder.
LocationBasesDescend ==
    \A i \in 1..(Len(ClaimedLocationOrder) - 1) :
        Less(locationBase(Str(ClaimedLocationOrder[i + 1])),
             locationBase(Str(ClaimedLocationOrder[i])))

\* C15 (as claimed): the bases the hidden rule gave the generated examples
\* are strictly ordered technology > healthcare > education > infrastructure
\* > agriculture > other and urban > suburban > coastal > inland > rural >
\* unknown.
C15_BaseOrder ==
    data # NoData => (CategoryBasesDescend /\ LocationBasesDescend)

(* -------------------------- Dataset generation -------------------------- *)

\* 0 <= v < 1 for a value v rand() returned.
YieldInUnitInterval(v) == ~DLess(v, DZero) /\ DLess(v, DInt(1))

\* The least and the greatest value rand() can return.
LeastYield == randValue(<<0, 0>>)
GreatestYield == randValue(<<W16 - 1, W16 - 1>>)

\* C16: any two finished invocations given the same count and the same seed
\* returned the same feature vectors, labels and raw rows, whatever was
\* invoked before or between them; each returned `count` rows, the ones a
\* generator freshly started from the seed produces; and every value rand()
\* returned, the quotient of its unsigned 32-bit result by 4294967296, is at
\* least 0 and below 1.
C16_Deterministic ==
    /\ \A i, j \in 1..Len(outs) :
          (outs[i].numSamples = outs[j].numSamples /\ outs[i].seed = outs[j].seed) =>
              /\ outs[i].X = outs[j].X
              /\ outs[i].y = outs[j].y
              /\ outs[i].rawRows = outs[j].rawRows
    /\ \A i \in 1..Len(outs) :
          /\ Len(outs[i].X) = outs[i].numSamples
          /\ Len(outs[i].y) = outs[i].numSamples
          /\ Len(outs[i].rawRows) = outs[i].numSamples
          /\ \A k \in 1..Len(outs) :
                outs[k].seed = outs[i].seed =>
                    \A r \in 1..Len(outs[i].X) :
                        r <= Len(outs[k].X) => outs[k].rawRows[r] = outs[i].rawRows[r]
    /\ \A k \in 1..Len(gen.yields) : YieldInUnitInterval(gen.yields[k])

\* Two invocations with the same count and seed and one with another seed
\* between them: the two returned the same rows, which differ from one
\* another, and rand() returned both its greatest value and 0 on the way.
C16_Witness ==
    /\ Len(outs) = MaxInvocations
    /\ outs[1].seed = outs[3].seed
    /\ outs[2].seed # outs[1].seed
    /\ outs[1].numSamples = TrainSamples
    /\ outs[3].numSamples = TrainSamples
    /\ outs[1].rawRows = outs[3].rawRows
    /\ outs[1].rawRows[1] # outs[1].rawRows[2]
    /\ outs[1].yields[1] = GreatestYield
    /\ outs[2].yields[2] = LeastYield

(* ----------------------------- Idea routes ----------------------------- *)

\* The location the precedence rule selects: the idea's declared location
\* unless it is absent or 'unknown', then the profile location, then 'unknown'.
DeclaredOrProfile(declared, userLocation) ==
    IF declared \notin {Undefined, Null, Str(""), Str("unknown")} THEN declared
    ELSE IF userLocation \notin {Undefined, Null, Str("")} THEN userLocation
    ELSE Str("unknown")

\* C12 (as claimed): the successRate an idea stores was computed with the
\* location the precedence rule selects for that idea, and an explanation of
\* the idea is computed with that same location.
C12_SameLocation ==
    /\ doc.exists => doc.ratedWith = DeclaredOrProfile(doc.location, profile)
    /\ (reply.route = "explanation" /\ reply.status = 200) =>
          /\ reply.authorLocation = DeclaredOrProfile(reply.idea.location, profile)
          /\ reply.authorLocation = reply.idea.ratedWith

(* --------------------------- Express interest --------------------------- *)

\* How many times id stands in list.
Occurrences(list, id) == Cardinality({i \in 1..Len(list) : list[i] = id})

\* C18 (as claimed): whatever requests were sent and however they
\* overlapped, the stored interestedFunders list holds every funder at most
\* once, and so does the list every 200 response carries.
C18_EachFunderOnce ==
    /\ \A f \in Funders : Occurrences(doc.interestedFunders, f) <= 1
    /\ \A r \in 1..MaxRequests :
          reqs[r].status = 200 => Occurrences(reqs[r].seen, reqs[r].funder) = 1

====
